---- MODULE Spec2Model ----
(***************************************************************************)
(* Scoring and aggregation subsystem of the candidate-scoring platform:    *)
(* AggregationService (aggregateProfile, refreshAllPlatformData,           *)
(* calculateCompositeScore, calculateAndStoreScore, getCurrentScore,       *)
(* getScoreHistory, setWeights), the connectors' cache (fetchAndStoreData, *)
(* getCachedData, storeManualData) and the platform connections.           *)
(*                                                                         *)
(* Numbers.  A score is kept as an integer number of 1/ScoreScale points   *)
(* and a weight as an integer number of 1/WeightScale, so that the         *)
(* quotients of the source are exact rationals; Math.round is round half   *)
(* up on that rational.  The input pools hold no value for which the       *)
(* IEEE-754 double quotient of the source would round differently from     *)
(* the exact one.                                                          *)
(***************************************************************************)
EXTENDS Integers, Sequences, FiniteSets, TLC

\* ------------------------------------------------------------------------
\* Enumerations and constants of the source
\* ------------------------------------------------------------------------
GITHUB == "GITHUB"
LINKEDIN == "LINKEDIN"
TWITTER == "TWITTER"
DEVTO == "DEVTO"
HASHNODE == "HASHNODE"
MEDIUM == "MEDIUM"

Platforms == {GITHUB, LINKEDIN, TWITTER, DEVTO, HASHNODE, MEDIUM}

Families == {"github", "linkedin", "twitter", "blog"}

ScoreScale == 200

WeightScale == 100

Null == -1

Pt(n) == n * ScoreScale

DEFAULT_WEIGHTS == [github |-> 35, linkedin |-> 30, twitter |-> 15, blog |-> 20]

NoData == [overallScore |-> Null, recommendations |-> <<>>]

NoProfile == ""

NoConnection == ""

\* ------------------------------------------------------------------------
\* Bounds of the model
\* ------------------------------------------------------------------------
MaxCalls == 3

Users == {"u1", "u2"}

CandidateIds == {"c1"}

Usernames == {"alice"}

\* the platforms a candidate connects in Spec
InputPlatforms == {GITHUB, LINKEDIN, DEVTO}

\* the calculateAndStoreScore calls that can be in flight together
RunIds == {"r1", "r2"}

\* no call
Idle == [pc |-> "idle"]

\* ------------------------------------------------------------------------
\* State
\* ------------------------------------------------------------------------
VARIABLES
    candidateProfile,    \* prisma.candidateProfile: userId -> profile id
    platformConnection,  \* prisma.platformConnection: candidateId, platform -> username
    platformData,        \* prisma.platformData: candidateId, platform -> cached data set
    candidateScore,      \* prisma.candidateScore: the rows, in insertion order
    weights,             \* AggregationService.weights
    clock,               \* the value new Date() returns next
    calls,               \* history: per user, the number of scoring runs that returned, the score and
                         \* the recommendations of the latest, the number of visibility toggles
    lastResult,          \* what the last operation returned or threw
    platformDataTypes,   \* prisma.platformData: candidateId, platform -> the dataType of the rows stored
    notificationStore,   \* notificationStore: userId -> notifications, newest first
    runs,                \* the calls in flight
    user,                \* prisma.user: the rows
    recruiterProfile,    \* prisma.recruiterProfile: the userId of the rows
    isPublic,            \* prisma.candidateProfile: profile id -> isPublic
    connectionSync,      \* prisma.platformConnection: candidateId, platform -> isVerified, lastSynced
    platformDataRows     \* prisma.platformData: candidateId, platform, dataType -> the data set each
                         \* row of that key was written from

vars == <<candidateProfile, platformConnection, platformData, candidateScore,
          weights, clock, calls, lastResult, platformDataTypes, notificationStore, runs,
          user, recruiterProfile, isPublic, connectionSync, platformDataRows>>

\* ------------------------------------------------------------------------
\* Helpers
\* ------------------------------------------------------------------------
Cat(cond, s) == IF cond THEN s ELSE <<>>

RECURSIVE SumSeq(_)
SumSeq(s) == IF s = <<>> THEN 0 ELSE s[1] + SumSeq(Tail(s))

\* Math.round of the non-negative rational num/den: the nearest integer, ties up
MathRound(num, den) == (2 * num + den) \div (2 * den)

Contains(s, e) == \E i \in 1..Len(s) : s[i] = e

\* [...new Set(s)]: first occurrences, in insertion order
RECURSIVE SetOrder(_)
SetOrder(s) ==
    IF s = <<>> THEN <<>>
    ELSE LET r == SetOrder(SubSeq(s, 1, Len(s) - 1))
             e == s[Len(s)]
         IN  IF Contains(r, e) THEN r ELSE Append(r, e)

\* Array.prototype.join
RECURSIVE Join(_, _)
Join(s, sep) ==
    IF s = <<>> THEN ""
    ELSE IF Len(s) = 1 THEN s[1]
    ELSE s[1] \o sep \o Join(Tail(s), sep)

\* Array.prototype.slice(0, n)
Slice(s, n) == SubSeq(s, 1, IF Len(s) < n THEN Len(s) ELSE n)

\* ------------------------------------------------------------------------
\* AggregationService.calculateCompositeScore
\* ------------------------------------------------------------------------
Has(profile, p) == profile.platforms[p] # NoData

ScoreOf(profile, p) ==
    IF Has(profile, p) THEN profile.platforms[p].overallScore ELSE Null

RecsOf(profile, p) ==
    IF Has(profile, p) THEN profile.platforms[p].recommendations ELSE <<>>

\* blogScores: the overall scores of devto, hashnode, medium, in this order
BlogScores(profile) ==
    Cat(Has(profile, DEVTO), <<ScoreOf(profile, DEVTO)>>)
    \o Cat(Has(profile, HASHNODE), <<ScoreOf(profile, HASHNODE)>>)
    \o Cat(Has(profile, MEDIUM), <<ScoreOf(profile, MEDIUM)>>)

\* mutant: the mean is truncated
BlogScoreOfFloor(profile) ==
    LET bs == BlogScores(profile)
    IN  IF Len(bs) > 0
        THEN Pt(SumSeq(bs) \div (Len(bs) * ScoreScale))
        ELSE Null

BlogScoreOf(profile) ==
    LET bs == BlogScores(profile)
    IN  IF Len(bs) > 0
        THEN Pt(MathRound(SumSeq(bs), Len(bs) * ScoreScale))
        ELSE Null

PlatformsConnected(profile) ==
    Cat(Has(profile, GITHUB), <<"github">>)
    \o Cat(Has(profile, LINKEDIN), <<"linkedin">>)
    \o Cat(Has(profile, TWITTER), <<"twitter">>)
    \o Cat(Has(profile, DEVTO), <<"devto">>)
    \o Cat(Has(profile, HASHNODE), <<"hashnode">>)
    \o Cat(Has(profile, MEDIUM), <<"medium">>)

PlatformsMissing(profile) ==
    Cat(~Has(profile, GITHUB), <<"github">>)
    \o Cat(~Has(profile, LINKEDIN), <<"linkedin">>)
    \o Cat(~Has(profile, TWITTER), <<"twitter">>)
    \o Cat(Len(BlogScores(profile)) = 0, <<"blog">>)

PlatformKey(p) ==
    CASE p = GITHUB -> "github" [] p = LINKEDIN -> "linkedin"
      [] p = TWITTER -> "twitter" [] p = DEVTO -> "devto"
      [] p = HASHNODE -> "hashnode" [] p = MEDIUM -> "medium"

PlatformScores(profile) ==
    LET present == {p \in Platforms : Has(profile, p)}
    IN  [k \in {PlatformKey(p) : p \in present} |->
            ScoreOf(profile, CHOOSE p \in present : PlatformKey(p) = k)]

Strengths(g, l, t, b) ==
    Cat(g # Null /\ g >= Pt(70), <<"Strong GitHub presence with quality code">>)
    \o Cat(l # Null /\ l >= Pt(70), <<"Well-developed professional network">>)
    \o Cat(t # Null /\ t >= Pt(70), <<"Strong social media engagement">>)
    \o Cat(b # Null /\ b >= Pt(70), <<"Active content creator with quality blogs">>)

Improvements(g, l, t, b) ==
    Cat(g # Null /\ g < Pt(50), <<"Improve GitHub activity and project quality">>)
    \o Cat(l # Null /\ l < Pt(50), <<"Enhance LinkedIn profile and connections">>)
    \o Cat(t # Null /\ t < Pt(50), <<"Increase technical content on social media">>)
    \o Cat(b # Null /\ b < Pt(50), <<"Write more technical blog content">>)

\* mutant: the missing platforms are not turned into a recommendation
AllRecommendationsFamiliesOnly(profile) ==
    RecsOf(profile, GITHUB) \o RecsOf(profile, LINKEDIN) \o RecsOf(profile, TWITTER)
    \o RecsOf(profile, DEVTO) \o RecsOf(profile, HASHNODE) \o RecsOf(profile, MEDIUM)

\* mutant: the missing platforms are recommended first
AllRecommendationsConnectFirst(profile) ==
    Cat(Len(PlatformsMissing(profile)) > 0,
        <<"Connect more platforms: " \o Join(PlatformsMissing(profile), ", ")>>)
    \o RecsOf(profile, GITHUB) \o RecsOf(profile, LINKEDIN) \o RecsOf(profile, TWITTER)
    \o RecsOf(profile, DEVTO) \o RecsOf(profile, HASHNODE) \o RecsOf(profile, MEDIUM)

AllRecommendations(profile) ==
    RecsOf(profile, GITHUB) \o RecsOf(profile, LINKEDIN) \o RecsOf(profile, TWITTER)
    \o RecsOf(profile, DEVTO) \o RecsOf(profile, HASHNODE) \o RecsOf(profile, MEDIUM)
    \o Cat(Len(PlatformsMissing(profile)) > 0,
           <<"Connect more platforms: " \o Join(PlatformsMissing(profile), ", ")>>)

\* mutant: the list is cut without removing the duplicates
RecommendationsNoDedup(profile) == Slice(AllRecommendations(profile), 10)

\* [...new Set(allRecommendations)].slice(0, 10)
Recommendations(profile) == Slice(SetOrder(AllRecommendations(profile)), 10)

\* weightedSum and totalWeight accumulate over the families whose score is not null
WeightedSum(g, l, t, b, w) ==
    (IF g # Null THEN g * w.github ELSE 0)
    + (IF l # Null THEN l * w.linkedin ELSE 0)
    + (IF t # Null THEN t * w.twitter ELSE 0)
    + (IF b # Null THEN b * w.blog ELSE 0)

TotalWeight(g, l, t, b, w) ==
    (IF g # Null THEN w.github ELSE 0)
    + (IF l # Null THEN w.linkedin ELSE 0)
    + (IF t # Null THEN w.twitter ELSE 0)
    + (IF b # Null THEN w.blog ELSE 0)

\* mutant: the sum is divided by the weights of all four families
OverallScoreAllWeights(g, l, t, b, w) ==
    IF TotalWeight(g, l, t, b, w) > 0
    THEN Pt(MathRound(WeightedSum(g, l, t, b, w),
                      (w.github + w.linkedin + w.twitter + w.blog) * ScoreScale))
    ELSE 0

\* mutant: the quotient is not rounded
OverallScoreUnrounded(g, l, t, b, w) ==
    IF TotalWeight(g, l, t, b, w) > 0
    THEN WeightedSum(g, l, t, b, w) \div TotalWeight(g, l, t, b, w)
    ELSE 0

OverallScore(g, l, t, b, w) ==
    IF TotalWeight(g, l, t, b, w) > 0
    THEN Pt(MathRound(WeightedSum(g, l, t, b, w), TotalWeight(g, l, t, b, w) * ScoreScale))
    ELSE 0

calculateCompositeScore(profile, w, now) ==
    LET g == ScoreOf(profile, GITHUB)
        l == ScoreOf(profile, LINKEDIN)
        t == ScoreOf(profile, TWITTER)
        b == BlogScoreOf(profile)
    IN  [overallScore |-> OverallScore(g, l, t, b, w),
         githubScore |-> g,
         linkedinScore |-> l,
         blogScore |-> b,
         socialScore |-> t,
         breakdown |-> [platformScores |-> PlatformScores(profile),
                        weights |-> w,
                        platformsConnected |-> PlatformsConnected(profile),
                        platformsMissing |-> PlatformsMissing(profile)],
         strengths |-> Strengths(g, l, t, b),
         improvements |-> Improvements(g, l, t, b),
         recommendations |-> Recommendations(profile),
         calculatedAt |-> now]

\* ------------------------------------------------------------------------
\* Exact arithmetic of the connectors' calculateMetrics: a non-negative
\* number of the source is the fraction <<numerator, denominator>> in lowest
\* terms
\* ------------------------------------------------------------------------
RECURSIVE GCD(_, _)
GCD(a, b) == IF b = 0 THEN a ELSE GCD(b, a % b)

Frac(n, d) == LET g == GCD(n, d) IN <<n \div g, d \div g>>

Num(n) == <<n, 1>>

QAdd(a, b) ==
    LET l == (a[2] \div GCD(a[2], b[2])) * b[2]
    IN  Frac(a[1] * (l \div a[2]) + b[1] * (l \div b[2]), l)

QMul(a, b) ==
    LET g1 == GCD(a[1], b[2])
        g2 == GCD(b[1], a[2])
    IN  Frac((a[1] \div g1) * (b[1] \div g2), (a[2] \div g2) * (b[2] \div g1))

\* n / d for numbers n and d of the source, d positive
QDiv(a, b) == QMul(a, <<b[2], b[1]>>)

QLt(a, b) ==
    LET l == (a[2] \div GCD(a[2], b[2])) * b[2]
    IN  a[1] * (l \div a[2]) < b[1] * (l \div b[2])

QGe(a, b) == ~QLt(a, b)

\* Math.min, Math.max
QMin(a, b) == IF QLt(b, a) THEN b ELSE a

QMax(a, b) == IF QLt(a, b) THEN b ELSE a

\* Math.round, in points of ScoreScale
QRound(a) == Pt(MathRound(a[1], a[2]))

\* a number of the source in points of ScoreScale, when that is whole
QPoints(a) == (a[1] * ScoreScale) \div a[2]

\* ------------------------------------------------------------------------
\* GitHubConnector.calculateMetrics.  The input is the profile, the
\* repositories that are not forks and the contribution statistics, by the
\* counts the function takes from them
\* ------------------------------------------------------------------------
GitHubLanguageDiversity(in) ==
    QMul(QMin(QDiv(Num(in.languages), Num(10)), Num(1)), Num(100))

GitHubCodeQualityScore(in) ==
    LET n == QMax(Num(in.ownRepos), Num(1))
    IN  QMin(QAdd(QAdd(QMul(QDiv(Num(in.hasReadme), n), Num(30)),
                       QMul(QDiv(Num(in.hasLicense), n), Num(20))),
                  QAdd(QMul(QDiv(Num(in.hasTopics), n), Num(20)),
                       QMul(QMin(QDiv(Num(in.totalStars), Num(100)), Num(1)), Num(30)))),
             Num(100))

GitHubCommitFrequency(in) ==
    QMin(QMul(QDiv(Num(in.totalCommits), Num(365)), Num(10)), Num(100))

GitHubCollaborationScore(in) ==
    QMin(QAdd(QAdd(QMul(QDiv(Num(in.totalPRs), Num(50)), Num(40)),
                   QMul(QDiv(Num(in.totalReviews), Num(50)), Num(30))),
              QMul(QDiv(Num(in.totalIssues), Num(100)), Num(30))),
         Num(100))

GitHubProjectImpactScore(in) ==
    QMin(QAdd(QAdd(QMul(QDiv(Num(in.totalStars), Num(100)), Num(40)),
                   QMul(QDiv(Num(in.totalForks), Num(50)), Num(30))),
              QMul(QDiv(Num(in.followers), Num(100)), Num(30))),
         Num(100))

GitHubOverallScore(in) ==
    QRound(QAdd(QAdd(QMul(GitHubCodeQualityScore(in), Frac(25, 100)),
                     QMul(GitHubLanguageDiversity(in), Frac(15, 100))),
                QAdd(QAdd(QMul(GitHubCommitFrequency(in), Frac(25, 100)),
                          QMul(GitHubCollaborationScore(in), Frac(20, 100))),
                     QMul(GitHubProjectImpactScore(in), Frac(15, 100)))))

GitHubRecommendations(in) ==
    Cat(QLt(GitHubLanguageDiversity(in), Num(50)),
        <<"Explore more programming languages to increase diversity">>)
    \o Cat(QLt(Num(in.hasReadme), QMul(Num(in.ownRepos), Frac(8, 10))),
           <<"Add descriptions to more of your repositories">>)
    \o Cat(QLt(Num(in.hasLicense), QMul(Num(in.ownRepos), Frac(5, 10))),
           <<"Add licenses to your repositories">>)
    \o Cat(QLt(GitHubCommitFrequency(in), Num(50)),
           <<"Maintain consistent commit activity">>)
    \o Cat(QLt(GitHubCollaborationScore(in), Num(50)),
           <<"Contribute to other projects through PRs and code reviews">>)
    \o Cat(in.activeRepos < 3, <<"Keep more projects actively maintained">>)
    \o Cat(~in.bio, <<"Add a bio to your GitHub profile">>)

GitHubCalculateMetrics(in) ==
    [codeQualityScore |-> QRound(GitHubCodeQualityScore(in)),
     languageDiversity |-> QRound(GitHubLanguageDiversity(in)),
     commitFrequency |-> QRound(GitHubCommitFrequency(in)),
     collaborationScore |-> QRound(GitHubCollaborationScore(in)),
     projectImpactScore |-> QRound(GitHubProjectImpactScore(in)),
     overallScore |-> GitHubOverallScore(in),
     recommendations |-> GitHubRecommendations(in)]

\* ------------------------------------------------------------------------
\* TwitterConnector.calculateMetrics.  The input is the profile and the
\* tweets that are not retweets, by the counts the function takes from them;
\* spanDays is the time from the first to the last of them
\* ------------------------------------------------------------------------
TwitterAvgLikes(in) == QDiv(Num(in.totalLikes), Num(in.originalTweets))

TwitterAvgRetweets(in) == QDiv(Num(in.totalRetweets), Num(in.originalTweets))

TwitterEngagementRate(in) ==
    IF in.followers > 0
    THEN QMul(QDiv(QDiv(Num(in.totalLikes + in.totalRetweets * 2), Num(in.originalTweets)),
                   Num(in.followers)),
              Num(100))
    ELSE Num(0)

TwitterTechnicalTweetRatio(in) == QDiv(Num(in.technicalTweets), Num(in.originalTweets))

TwitterEngagementScore(in) ==
    QMin(QAdd(QAdd(IF QGe(TwitterAvgLikes(in), Num(10)) THEN Num(40)
                   ELSE QMul(TwitterAvgLikes(in), Num(4)),
                   IF QGe(TwitterAvgRetweets(in), Num(5)) THEN Num(30)
                   ELSE QMul(TwitterAvgRetweets(in), Num(6))),
              IF QGe(TwitterEngagementRate(in), Num(1)) THEN Num(30)
              ELSE QMul(TwitterEngagementRate(in), Num(30))),
         Num(100))

TwitterTechnicalContentScore(in) ==
    QMin(QMul(TwitterTechnicalTweetRatio(in), Num(100)), Num(100))

TwitterInfluenceScore(in) ==
    QMin(QAdd(QAdd(IF in.followers >= 10000 THEN Num(40)
                   ELSE QMul(QDiv(Num(in.followers), Num(10000)), Num(40)),
                   IF in.listedCount >= 100 THEN Num(30)
                   ELSE QMul(QDiv(Num(in.listedCount), Num(100)), Num(30))),
              IF in.verified THEN Num(30) ELSE Num(0)),
         Num(100))

TwitterTweetsPerWeek(in) ==
    IF in.originalTweets >= 2
    THEN QDiv(Num(in.originalTweets), QMax(Num(1), QDiv(Num(in.spanDays), Num(7))))
    ELSE Num(0)

TwitterConsistencyScore(in) ==
    QMin(IF QGe(TwitterTweetsPerWeek(in), Num(7)) THEN Num(100)
         ELSE QMul(TwitterTweetsPerWeek(in), Num(14)),
         Num(100))

TwitterOverallScore(in) ==
    QRound(QAdd(QAdd(QMul(TwitterEngagementScore(in), Frac(30, 100)),
                     QMul(TwitterTechnicalContentScore(in), Frac(25, 100))),
                QAdd(QMul(TwitterInfluenceScore(in), Frac(25, 100)),
                     QMul(TwitterConsistencyScore(in), Frac(20, 100)))))

\* topHashtags holds at most 5 hashtags
TwitterRecommendations(in) ==
    Cat(QLt(TwitterTechnicalTweetRatio(in), Frac(3, 10)),
        <<"Share more technical content to establish expertise">>)
    \o Cat(QLt(TwitterAvgLikes(in), Num(5)),
           <<"Engage more with the community to increase visibility">>)
    \o Cat(QLt(TwitterTweetsPerWeek(in), Num(3)),
           <<"Tweet more consistently to grow your audience">>)
    \o Cat((IF in.hashtags < 5 THEN in.hashtags ELSE 5) < 3,
           <<"Use relevant hashtags to reach a wider audience">>)
    \o Cat(~in.bio, <<"Add a bio to your Twitter profile">>)

\* mutant: the empty branch scores the followers without the cap
TwitterEmptyMetricsUncapped(in) ==
    [engagementScore |-> 0,
     technicalContentScore |-> 0,
     influenceScore |-> QPoints(QMul(QDiv(Num(in.followers), Num(1000)), Num(20))),
     consistencyScore |-> 0,
     overallScore |-> QPoints(QMul(QDiv(Num(in.followers), Num(1000)), Num(5))),
     recommendations |-> <<"Tweet more to build your social presence">>]

\* the result when there is no original tweet: these two scores are not rounded
TwitterEmptyMetrics(in) ==
    [engagementScore |-> 0,
     technicalContentScore |-> 0,
     influenceScore |->
         QPoints(QMin(QMul(QDiv(Num(in.followers), Num(1000)), Num(20)), Num(100))),
     consistencyScore |-> 0,
     overallScore |->
         QPoints(QMin(QMul(QDiv(Num(in.followers), Num(1000)), Num(5)), Num(25))),
     recommendations |-> <<"Tweet more to build your social presence">>]

TwitterCalculateMetrics(in) ==
    IF in.originalTweets = 0 THEN TwitterEmptyMetrics(in)
    ELSE [engagementScore |-> QRound(TwitterEngagementScore(in)),
          technicalContentScore |-> QRound(TwitterTechnicalContentScore(in)),
          influenceScore |-> QRound(TwitterInfluenceScore(in)),
          consistencyScore |-> QRound(TwitterConsistencyScore(in)),
          overallScore |-> TwitterOverallScore(in),
          recommendations |-> TwitterRecommendations(in)]

\* ------------------------------------------------------------------------
\* LinkedInConnector.calculateMetrics.  months holds, for each experience,
\* the months from its start to its end (or to now)
\* ------------------------------------------------------------------------
RECURSIVE LinkedInTotalMonths(_)
LinkedInTotalMonths(months) ==
    IF months = <<>> THEN 0
    ELSE (IF months[1] > 0 THEN months[1] ELSE 0) + LinkedInTotalMonths(Tail(months))

\* Math.round(totalMonths / 12 * 10) / 10
LinkedInYearsOfExperience(in) ==
    Frac(MathRound(LinkedInTotalMonths(in.months) * 10, 12), 10)

LinkedInExperienceScore(in) ==
    LET n == Len(in.months)
        y == LinkedInYearsOfExperience(in)
    IN  QMin(QAdd(QAdd(IF QGe(y, Num(5)) THEN Num(40) ELSE QMul(y, Num(8)),
                       IF n >= 3 THEN Num(30) ELSE Num(n * 10)),
                  QMul(QDiv(Num(in.described), QMax(Num(n), Num(1))), Num(30))),
             Num(100))

LinkedInEducationScore(in) ==
    QMin(Num((IF in.education >= 1 THEN 40 ELSE 0)
             + (IF in.hasAdvancedDegree THEN 30 ELSE 0)
             + (IF in.hasFieldOfStudy THEN 30 ELSE 0)),
         Num(100))

LinkedInSkillsScore(in) ==
    QMin(Num((IF in.skills >= 10 THEN 50 ELSE in.skills * 5)
             + (IF in.endorsements >= 50 THEN 50 ELSE in.endorsements)),
         Num(100))

LinkedInNetworkScore(in) ==
    QMin(IF in.connections >= 500 THEN Num(100) ELSE QDiv(Num(in.connections), Num(5)),
         Num(100))

LinkedInOverallScore(in) ==
    QRound(QAdd(QAdd(QMul(LinkedInExperienceScore(in), Frac(35, 100)),
                     QMul(LinkedInEducationScore(in), Frac(20, 100))),
                QAdd(QMul(LinkedInSkillsScore(in), Frac(25, 100)),
                     QMul(LinkedInNetworkScore(in), Frac(20, 100)))))

LinkedInRecommendations(in) ==
    Cat(QLt(LinkedInYearsOfExperience(in), Num(2)), <<"Gain more professional experience">>)
    \o Cat(in.described < Len(in.months),
           <<"Add detailed descriptions to your work experiences">>)
    \o Cat(in.skills < 10, <<"Add more skills to your profile">>)
    \o Cat(in.connections < 100, <<"Expand your professional network">>)
    \o Cat(~in.headline, <<"Add a professional headline">>)
    \o Cat(~in.bio, <<"Write a compelling summary/bio">>)
    \o Cat(in.certifications = 0, <<"Add relevant certifications to stand out">>)

LinkedInCalculateMetrics(in) ==
    [experienceScore |-> QRound(LinkedInExperienceScore(in)),
     educationScore |-> QRound(LinkedInEducationScore(in)),
     skillsScore |-> QRound(LinkedInSkillsScore(in)),
     networkScore |-> QRound(LinkedInNetworkScore(in)),
     overallScore |-> LinkedInOverallScore(in),
     recommendations |-> LinkedInRecommendations(in)]

\* ------------------------------------------------------------------------
\* BlogConnector.calculateMetrics.  The input is the profile and the posts,
\* by the counts the function takes from them; spanDays is the time from the
\* first to the last post
\* ------------------------------------------------------------------------
BlogAvgReadingTime(in) == QDiv(Num(in.totalReadingTime), Num(in.posts))

BlogPostsPerMonth(in) ==
    QDiv(Num(in.posts), QMax(Num(1), QDiv(Num(in.spanDays), Num(30))))

BlogContentQualityScore(in) ==
    QMin(QAdd(QAdd(IF QGe(BlogAvgReadingTime(in), Num(3)) THEN Num(30)
                   ELSE QMul(BlogAvgReadingTime(in), Num(10)),
                   QMul(QDiv(Num(in.withCoverImage), Num(in.posts)), Num(20))),
              QAdd(QMul(QDiv(Num(in.withExcerpt), Num(in.posts)), Num(20)),
                   QMul(QMin(QDiv(Num(in.posts), Num(20)), Num(1)), Num(30)))),
         Num(100))

BlogConsistencyScore(in) ==
    QMin(IF QGe(BlogPostsPerMonth(in), Num(4)) THEN Num(100)
         ELSE QMul(BlogPostsPerMonth(in), Num(25)),
         Num(100))

BlogEngagementScore(in) ==
    QMin(QAdd(QAdd(IF QGe(QDiv(Num(in.totalReactions), Num(in.posts)), Num(10)) THEN Num(40)
                   ELSE QMul(QDiv(Num(in.totalReactions), Num(in.posts)), Num(4)),
                   IF QGe(QDiv(Num(in.totalComments), Num(in.posts)), Num(5)) THEN Num(30)
                   ELSE QMul(QDiv(Num(in.totalComments), Num(in.posts)), Num(6))),
              IF in.followers >= 100 THEN Num(30) ELSE QMul(Num(in.followers), Frac(3, 10))),
         Num(100))

BlogTopicDiversityScore(in) ==
    QMin(QMul(QDiv(Num(in.uniqueTags), Num(10)), Num(100)), Num(100))

BlogOverallScore(in) ==
    QRound(QAdd(QAdd(QMul(BlogContentQualityScore(in), Frac(30, 100)),
                     QMul(BlogConsistencyScore(in), Frac(25, 100))),
                QAdd(QMul(BlogEngagementScore(in), Frac(30, 100)),
                     QMul(BlogTopicDiversityScore(in), Frac(15, 100)))))

BlogRecommendations(in) ==
    Cat(QLt(BlogPostsPerMonth(in), Num(2)),
        <<"Write more frequently to maintain reader engagement">>)
    \o Cat(QLt(BlogAvgReadingTime(in), Num(3)), <<"Write longer, more in-depth articles">>)
    \o Cat(in.uniqueTags < 5, <<"Cover more diverse topics to reach a wider audience">>)
    \o Cat(QLt(Num(in.withCoverImage), QMul(Num(in.posts), Frac(8, 10))),
           <<"Add cover images to more of your posts">>)
    \o Cat(QLt(QDiv(Num(in.totalReactions), Num(in.posts)), Num(5)),
           <<"Engage with the community to increase your reactions">>)

\* mutant: the result for no posts carries no recommendation
BlogEmptyMetricsSilent ==
    [contentQualityScore |-> 0,
     consistencyScore |-> 0,
     engagementScore |-> 0,
     topicDiversityScore |-> 0,
     overallScore |-> 0,
     recommendations |-> <<>>]

BlogEmptyMetrics ==
    [contentQualityScore |-> 0,
     consistencyScore |-> 0,
     engagementScore |-> 0,
     topicDiversityScore |-> 0,
     overallScore |-> 0,
     recommendations |-> <<"Start writing blog posts to build your content portfolio">>]

BlogCalculateMetrics(in) ==
    IF in.posts = 0 THEN BlogEmptyMetrics
    ELSE [contentQualityScore |-> QRound(BlogContentQualityScore(in)),
          consistencyScore |-> QRound(BlogConsistencyScore(in)),
          engagementScore |-> QRound(BlogEngagementScore(in)),
          topicDiversityScore |-> QRound(BlogTopicDiversityScore(in)),
          overallScore |-> BlogOverallScore(in),
          recommendations |-> BlogRecommendations(in)]

\* ------------------------------------------------------------------------
\* Inputs: what a connector fetch can return, the manual LinkedIn input,
\* the partial weights handed to setWeights
\* ------------------------------------------------------------------------
Metrics(points200, recs) == [overallScore |-> points200, recommendations |-> recs]

FetchPool(p) ==
    CASE p = GITHUB ->
           {Metrics(Pt(50), <<"Add licenses to your repositories", "Add a bio to your GitHub profile">>),
            Metrics(Pt(70), <<"Add licenses to your repositories">>)}
      [] p = TWITTER ->
           {Metrics(3050, <<"Tweet more to build your social presence">>)}
      [] p = DEVTO ->
           {Metrics(Pt(40), <<"Write more frequently to maintain reader engagement">>)}
      [] p = HASHNODE ->
           {Metrics(Pt(75), <<"Write more frequently to maintain reader engagement">>)}
      [] p = MEDIUM ->
           \* fetchMediumData is a placeholder that returns no posts
           {Metrics(0, <<"Start writing blog posts to build your content portfolio">>)}
      [] p = LINKEDIN -> {}

\* further data sets a cache can hold, used where the scoring function is checked
ScorePool(p) ==
    FetchPool(p) \cup
    CASE p = GITHUB -> {Metrics(Pt(80), <<>>)}
      [] p = LINKEDIN ->
           {Metrics(Pt(60), <<"Expand your professional network", "Add a professional headline">>)}
      [] p = TWITTER -> {Metrics(Pt(36), <<"Add a bio to your Twitter profile">>)}
      [] p = DEVTO -> {Metrics(0, <<"Start writing blog posts to build your content portfolio">>)}
      [] OTHER -> {}

ManualPool ==
    {Metrics(Pt(60), <<"Expand your professional network", "Add a professional headline">>)}

WeightPatches ==
    {[github |-> 0],
     DEFAULT_WEIGHTS}

ScoreWeightPatches ==
    WeightPatches \cup {[twitter |-> 50, blog |-> 50], [github |-> 0, linkedin |-> 0]}

\* ------------------------------------------------------------------------
\* Results of operations
\* ------------------------------------------------------------------------
NotFound == "Candidate profile not found"

NoValue == [void |-> TRUE]

\* the operation returned nothing the model keeps
Void == [op |-> "", userId |-> "", error |-> "", value |-> NoValue, env |-> {}]

Returned(op, u, value, env) ==
    [op |-> op, userId |-> u, error |-> "", value |-> value, env |-> env]

Thrown(op, u, msg) ==
    [op |-> op, userId |-> u, error |-> msg, value |-> NoValue, env |-> {}]

\* ------------------------------------------------------------------------
\* Reads of the persistence layer
\* ------------------------------------------------------------------------
\* prisma.candidateProfile.findUnique({ where: { userId } })
HasProfile(u) == candidateProfile[u] # NoProfile

\* candidateProfile.platformConnections
Connected(cid) == {p \in Platforms : platformConnection[cid][p] # NoConnection}

\* the dataType of the rows fetchAndStoreData or storeManualData writes, in the order written
StoredTypes(p) ==
    CASE p = GITHUB -> <<"profile", "repositories", "contributions", "metrics">>
      [] p = LINKEDIN -> <<"profile", "experiences", "education", "skills",
                           "certifications", "metrics">>
      [] p = TWITTER -> <<"profile", "tweets", "metrics">>
      [] OTHER -> <<"profile", "posts", "metrics">>

AllTypes(p) == {StoredTypes(p)[i] : i \in 1..Len(StoredTypes(p))}

\* the rows getCachedData asks for before it returns a data set
RequiredTypes(p) ==
    CASE p = GITHUB -> {"profile", "repositories", "contributions", "metrics"}
      [] p = LINKEDIN -> {"profile", "metrics"}
      [] p = TWITTER -> {"profile", "tweets", "metrics"}
      [] OTHER -> {"profile", "posts", "metrics"}

\* getCachedData over the rows pd, dt: null when there is no row or a required one is missing
CachedDataIn(pd, dt, cid, p) ==
    IF dt[cid][p] = {} THEN NoData
    ELSE IF ~(RequiredTypes(p) \subseteq dt[cid][p]) THEN NoData
    ELSE pd[cid][p]

\* connector.getCachedData(candidateId): the cached data set or null
getCachedData(cid, p) == CachedDataIn(platformData, platformDataTypes, cid, p)

\* the rows of a cache whose data sets were stored completely
TypesOf(pd) ==
    [c \in DOMAIN pd |-> [p \in Platforms |-> IF pd[c][p] # NoData THEN AllTypes(p) ELSE {}]]

DataTypes == UNION {AllTypes(p) : p \in Platforms}

\* the rows of a cache whose rows hold the data set of their platform, one row for each key
RowsFrom(pd, dt) ==
    [c \in DOMAIN pd |->
        [p \in Platforms |->
            [t \in DataTypes |-> IF t \in dt[c][p] THEN <<pd[c][p]>> ELSE <<>>]]]

\* a connection no fetch has succeeded for: isVerified false, lastSynced null
NeverSynced == [isVerified |-> FALSE, lastSynced |-> Null]

\* 24 * 60 * 60 * 1000 ms
DayMs == 86400000

\* the clock counts ms from the start of a run.  Of lastSynced the model keeps the
\* day, counted from two days before the run; a run stays within the day it starts in
DayOf(now) == 2 + now \div DayMs

\* the connections of a cache whose complete data sets were stored at time 0
SyncOf(pc, dt) ==
    [c \in DOMAIN pc |->
        [p \in Platforms |->
            IF pc[c][p] # NoConnection /\ dt[c][p] = AllTypes(p)
            THEN [isVerified |-> p # LINKEDIN, lastSynced |-> DayOf(0)]
            ELSE NeverSynced]]

CANDIDATE == "CANDIDATE"
RECRUITER == "RECRUITER"

\* the users behind the profiles cp: who has no candidate profile is a recruiter
UsersOf(cp) ==
    {[id |-> u,
      email |-> u \o "@example.com",
      userType |-> IF cp[u] # NoProfile THEN CANDIDATE ELSE RECRUITER] : u \in DOMAIN cp}

ScoresOf(cid) ==
    {i \in 1..Len(candidateScore) : candidateScore[i].candidateId = cid}

\* mutant: orderBy createdAt ascending
LatestScoresAsc(cid) ==
    {i \in ScoresOf(cid) :
        \A j \in ScoresOf(cid) : candidateScore[i].createdAt <= candidateScore[j].createdAt}

\* prisma.candidateScore.findFirst({ where: { candidateId }, orderBy: { createdAt: 'desc' } }):
\* the indexes of the rows it may return
LatestScores(cid) ==
    {i \in ScoresOf(cid) :
        \A j \in ScoresOf(cid) : candidateScore[j].createdAt <= candidateScore[i].createdAt}

\* the CompositeScore rebuilt from a stored row
ScoreFromRecord(row, w) ==
    [overallScore |-> row.compositeScore,
     githubScore |-> row.githubScore,
     linkedinScore |-> row.linkedinScore,
     blogScore |-> row.blogScore,
     socialScore |-> row.socialScore,
     breakdown |-> [platformScores |-> [k \in {} |-> 0],
                    weights |-> w,
                    platformsConnected |-> <<>>,
                    platformsMissing |-> <<>>],
     strengths |-> row.strengths,
     improvements |-> row.improvements,
     recommendations |-> <<>>,
     calculatedAt |-> row.createdAt]

\* ------------------------------------------------------------------------
\* AggregationService.aggregateProfile
\* ------------------------------------------------------------------------
\* the DigitalProfile assembled from the cache rows pd, dt of the connected
\* platforms; the cached read of the platforms in throws throws
ProfileFrom(u, pd, dt, throws) ==
    LET cid == candidateProfile[u]
    IN  [candidateId |-> cid,
         userId |-> u,
         platforms |-> [p \in Platforms |->
                          IF p \in Connected(cid) /\ p \notin throws
                          THEN CachedDataIn(pd, dt, cid, p)
                          ELSE NoData]]

CachedProfile(u) == ProfileFrom(u, platformData, platformDataTypes, {})

\* mutant: a user without candidate profile gets an empty profile
aggregateProfileLenient(u) ==
    /\ lastResult' = IF HasProfile(u)
                     THEN Returned("aggregateProfile", u, CachedProfile(u), {})
                     ELSE Returned("aggregateProfile", u,
                                   [candidateId |-> "", userId |-> u,
                                    platforms |-> [p \in Platforms |-> NoData]], {})
    /\ UNCHANGED <<platformDataTypes, notificationStore, runs>>
    /\ UNCHANGED <<user, recruiterProfile, isPublic, connectionSync, platformDataRows>>
    /\ UNCHANGED <<candidateProfile, platformConnection, platformData, candidateScore,
                   weights, clock, calls>>

\* mutant: an error of a cached read is not caught
aggregateProfileWithRethrow(u, throws) ==
    /\ lastResult' = IF HasProfile(u)
                     THEN IF throws \cap Connected(candidateProfile[u]) # {}
                          THEN Thrown("aggregateProfile", u, "Error fetching data")
                          ELSE Returned("aggregateProfile", u,
                                        ProfileFrom(u, platformData, platformDataTypes, throws),
                                        throws)
                     ELSE Thrown("aggregateProfile", u, NotFound)
    /\ UNCHANGED <<platformDataTypes, notificationStore, runs>>
    /\ UNCHANGED <<user, recruiterProfile, isPublic, connectionSync, platformDataRows>>
    /\ UNCHANGED <<candidateProfile, platformConnection, platformData, candidateScore,
                   weights, clock, calls>>

\* aggregateProfile(userId) when the cached read of the platforms in throws throws
aggregateProfileWith(u, throws) ==
    /\ lastResult' = IF HasProfile(u)
                     THEN Returned("aggregateProfile", u,
                                   ProfileFrom(u, platformData, platformDataTypes, throws),
                                   throws)
                     ELSE Thrown("aggregateProfile", u, NotFound)
    /\ UNCHANGED <<platformDataTypes, notificationStore, runs>>
    /\ UNCHANGED <<user, recruiterProfile, isPublic, connectionSync, platformDataRows>>
    /\ UNCHANGED <<candidateProfile, platformConnection, platformData, candidateScore,
                   weights, clock, calls>>

\* aggregateProfile(userId) when every cached read returns
aggregateProfile(u) == aggregateProfileWith(u, {})

\* ------------------------------------------------------------------------
\* AggregationService.refreshAllPlatformData
\* ------------------------------------------------------------------------
\* the platforms refreshed through connector.fetchAndStoreData
Fetchable(cid) == Connected(cid) \ {LINKEDIN}

\* what the fetches of one refresh can do: for each platform of ps either the
\* data its fetch returns or NoData when the fetch throws
RECURSIVE FetchOutcomes(_)
FetchOutcomes(ps) ==
    IF ps = {} THEN {[p \in Platforms |-> NoData]}
    ELSE LET p == CHOOSE x \in ps : TRUE
         IN  {[o EXCEPT ![p] = d] : o \in FetchOutcomes(ps \ {p}),
                                    d \in FetchPool(p) \cup {NoData}}

\* the platforms whose fetch returned
Fetched(o) == {p \in Platforms : o[p] # NoData}

\* mutant: the first fetch that throws ends the refresh, nothing is stored
StoreFetchedOrAbort(cid, o) ==
    IF \A p \in Fetchable(cid) : o[p] # NoData
    THEN [platformData EXCEPT ![cid] =
            [p \in Platforms |-> IF p \in Fetched(o) THEN o[p] ELSE @[p]]]
    ELSE platformData

\* the rows after one refresh: fetchAndStoreData writes every dataType
StoreFetchedTypes(cid, o) ==
    [platformDataTypes EXCEPT ![cid] =
        [p \in Platforms |-> IF p \in Fetched(o) THEN AllTypes(p) ELSE @[p]]]

\* the cache after one refresh: fetchAndStoreData stores only after its fetch returned
StoreFetched(cid, o) ==
    [platformData EXCEPT ![cid] =
        [p \in Platforms |-> IF p \in Fetched(o) THEN o[p] ELSE @[p]]]

\* storePlatformData on the rows s of one key: findFirst returns row i, which is
\* updated, or no row, and one is created
StoreRow(s, data, i) == IF s = <<>> THEN <<data>> ELSE [s EXCEPT ![i] = data]

\* the row findFirst can return for each key of the candidate
RowChoices(cid) ==
    LET n(k) == IF platformDataRows[cid][k[1]][k[2]] = <<>> THEN 1
                ELSE Len(platformDataRows[cid][k[1]][k[2]])
        most == CHOOSE m \in {n(k) : k \in Platforms \X DataTypes} :
                    \A k \in Platforms \X DataTypes : n(k) <= m
    IN  {f \in [Platforms \X DataTypes -> 1..most] :
            \A k \in Platforms \X DataTypes : f[k] <= n(k)}

\* the rows after one refresh that found the rows f
StoreFetchedRows(cid, o, f) ==
    [platformDataRows EXCEPT ![cid] =
        [p \in Platforms |->
            IF p \in Fetched(o)
            THEN [t \in DataTypes |-> IF t \in AllTypes(p)
                                      THEN StoreRow(@[p][t], o[p], f[<<p, t>>])
                                      ELSE @[p][t]]
            ELSE @[p]]]

\* the connections after one refresh: fetchAndStoreData ends with
\* platformConnection.updateMany({ data: { lastSynced: new Date(), isVerified: true } })
SyncFetched(cid, o, now) ==
    [connectionSync EXCEPT ![cid] =
        [p \in Platforms |-> IF p \in Fetched(o)
                             THEN [isVerified |-> TRUE, lastSynced |-> DayOf(now)]
                             ELSE @[p]]]

RefreshedProfile(u, o) ==
    LET cid == candidateProfile[u]
    IN  [candidateId |-> cid,
         userId |-> u,
         platforms |-> [p \in Platforms |->
                          IF p \in Fetched(o) THEN o[p]
                          ELSE IF p = LINKEDIN /\ p \in Connected(cid)
                               THEN getCachedData(cid, LINKEDIN)
                               ELSE NoData]]

refreshAllPlatformData(u) ==
    IF ~HasProfile(u)
    THEN /\ lastResult' = Thrown("refreshAllPlatformData", u, NotFound)
         /\ UNCHANGED <<platformDataTypes, notificationStore, runs>>
         /\ UNCHANGED <<user, recruiterProfile, isPublic, connectionSync, platformDataRows>>
         /\ UNCHANGED <<candidateProfile, platformConnection, platformData, candidateScore,
                        weights, clock, calls>>
    ELSE \E o \in FetchOutcomes(Fetchable(candidateProfile[u])) :
            /\ platformData' = StoreFetched(candidateProfile[u], o)
            /\ platformDataTypes' = StoreFetchedTypes(candidateProfile[u], o)
            /\ lastResult' = Returned("refreshAllPlatformData", u, RefreshedProfile(u, o),
                                      Fetched(o))
            /\ UNCHANGED <<notificationStore, runs>>
            /\ \E f \in RowChoices(candidateProfile[u]) :
                   platformDataRows' = StoreFetchedRows(candidateProfile[u], o, f)
            /\ connectionSync' = SyncFetched(candidateProfile[u], o, clock)
            /\ UNCHANGED <<user, recruiterProfile, isPublic>>
            /\ UNCHANGED <<candidateProfile, platformConnection, candidateScore,
                           weights, clock, calls>>

\* ------------------------------------------------------------------------
\* AggregationService.calculateAndStoreScore
\* ------------------------------------------------------------------------
NoScore == [overallScore |-> Null]

ScoreRow(id, cid, current, createdAt, updatedAt) ==
    [id |-> id,
     candidateId |-> cid,
     compositeScore |-> current.overallScore,
     githubScore |-> current.githubScore,
     linkedinScore |-> current.linkedinScore,
     blogScore |-> current.blogScore,
     socialScore |-> current.socialScore,
     strengths |-> current.strengths,
     improvements |-> current.improvements,
     createdAt |-> createdAt,
     updatedAt |-> updatedAt]

\* prisma.candidateScore.upsert({ where: { id: previousScoreRecord?.id || '' }, create, update }):
\* prev is the index of the previous row, or 0 when there is none
UpsertScore(prev, cid, current, now) ==
    IF prev # 0
    THEN [candidateScore EXCEPT ![prev] =
            ScoreRow(@.id, @.candidateId, current, @.createdAt, now)]
    ELSE Append(candidateScore,
                ScoreRow(Len(candidateScore) + 1, cid, current, now, now))

\* mutant: changed does not ask whether a previous score exists
ScoreUpdateResultNoNullCheck(previous, current) ==
    [previous |-> previous,
     current |-> current,
     changed |-> previous.overallScore # current.overallScore,
     changeAmount |-> IF previous # NoScore
                      THEN current.overallScore - previous.overallScore
                      ELSE current.overallScore]

ScoreUpdateResult(previous, current) ==
    [previous |-> previous,
     current |-> current,
     changed |-> previous # NoScore /\ previous.overallScore # current.overallScore,
     changeAmount |-> IF previous # NoScore
                      THEN current.overallScore - previous.overallScore
                      ELSE current.overallScore]

\* the body of calculateAndStoreScore for an existing candidate, over the cache pd
CalculateAndStore(op, u, pd, dt, env) ==
    LET cid == candidateProfile[u]
        found == LatestScores(cid)
    IN  /\ clock < MaxCalls
        /\ \E prev \in (IF found = {} THEN {0} ELSE found) :
             LET previous == IF prev = 0 THEN NoScore
                             ELSE ScoreFromRecord(candidateScore[prev], weights)
                 current == calculateCompositeScore(ProfileFrom(u, pd, dt, {}), weights, clock)
             IN  /\ candidateScore' = UpsertScore(prev, cid, current, clock)
                 /\ lastResult' = Returned(op, u, ScoreUpdateResult(previous, current), env)
                 /\ calls' = [calls EXCEPT ![u] = [n |-> @.n + 1,
                                                   last |-> current.overallScore,
                                                   recommendations |-> current.recommendations,
                                             toggles |-> @.toggles]]
        /\ clock' = clock + 1

calculateAndStoreScore(u) ==
    IF ~HasProfile(u)
    THEN /\ lastResult' = Thrown("calculateAndStoreScore", u, NotFound)
         /\ UNCHANGED <<platformDataTypes, notificationStore, runs>>
         /\ UNCHANGED <<user, recruiterProfile, isPublic, connectionSync, platformDataRows>>
         /\ UNCHANGED <<candidateProfile, platformConnection, platformData, candidateScore,
                        weights, clock, calls>>
    ELSE /\ CalculateAndStore("calculateAndStoreScore", u, platformData, platformDataTypes, {})
         /\ UNCHANGED <<platformDataTypes, notificationStore, runs>>
         /\ UNCHANGED <<user, recruiterProfile, isPublic, connectionSync, platformDataRows>>
         /\ UNCHANGED <<candidateProfile, platformConnection, platformData, weights>>

\* ------------------------------------------------------------------------
\* calculateAndStoreScore step by step: call r stops at each await on the
\* persistence layer, where other calls and operations can run
\* ------------------------------------------------------------------------
\* no call r is between its first read and its write
NoneInFlight == \A r \in RunIds : runs[r].pc \in {"idle", "returned"}

\* prisma.candidateProfile.findUnique
RunFindUnique(r, u) ==
    /\ runs[r] = Idle
    /\ IF ~HasProfile(u)
       THEN /\ runs' = [runs EXCEPT ![r] = [pc |-> "returned", userId |-> u]]
            /\ lastResult' = Thrown("calculateAndStoreScore", u, NotFound)
       ELSE /\ runs' = [runs EXCEPT ![r] = [pc |-> "findFirst", userId |-> u]]
            /\ UNCHANGED lastResult
    /\ UNCHANGED <<platformDataTypes, notificationStore>>
    /\ UNCHANGED <<user, recruiterProfile, isPublic, connectionSync, platformDataRows>>
    /\ UNCHANGED <<candidateProfile, platformConnection, platformData, candidateScore,
                   weights, clock, calls>>

\* prisma.candidateScore.findFirst and the previous score built from its row
RunFindFirst(r) ==
    /\ runs[r].pc = "findFirst"
    /\ LET found == LatestScores(candidateProfile[runs[r].userId])
       IN  \E prev \in (IF found = {} THEN {0} ELSE found) :
               runs' = [runs EXCEPT ![r] =
                           [pc |-> "aggregateProfile",
                            userId |-> @.userId,
                            prev |-> prev,
                            previous |-> IF prev = 0 THEN NoScore
                                         ELSE ScoreFromRecord(candidateScore[prev], weights)]]
    /\ UNCHANGED <<platformDataTypes, notificationStore>>
    /\ UNCHANGED <<user, recruiterProfile, isPublic, connectionSync, platformDataRows>>
    /\ UNCHANGED <<candidateProfile, platformConnection, platformData, candidateScore,
                   weights, clock, calls, lastResult>>

\* this.aggregateProfile and this.calculateCompositeScore
RunAggregateProfile(r) ==
    /\ runs[r].pc = "aggregateProfile"
    /\ runs' = [runs EXCEPT ![r] =
                   [pc |-> "upsert",
                    userId |-> @.userId,
                    prev |-> @.prev,
                    previous |-> @.previous,
                    current |-> calculateCompositeScore(CachedProfile(@.userId), weights, clock)]]
    /\ UNCHANGED <<platformDataTypes, notificationStore>>
    /\ UNCHANGED <<user, recruiterProfile, isPublic, connectionSync, platformDataRows>>
    /\ UNCHANGED <<candidateProfile, platformConnection, platformData, candidateScore,
                   weights, clock, calls, lastResult>>

\* prisma.candidateScore.upsert and the return
RunUpsert(r) ==
    /\ runs[r].pc = "upsert"
    /\ clock < MaxCalls
    /\ LET u == runs[r].userId
           current == runs[r].current
       IN  /\ candidateScore' = UpsertScore(runs[r].prev, candidateProfile[u], current, clock)
           /\ lastResult' = Returned("calculateAndStoreScore", u,
                                     ScoreUpdateResult(runs[r].previous, current), {})
           /\ calls' = [calls EXCEPT ![u] = [n |-> @.n + 1,
                                             last |-> current.overallScore,
                                             recommendations |-> current.recommendations,
                                             toggles |-> @.toggles]]
           /\ runs' = [runs EXCEPT ![r] = [pc |-> "returned", userId |-> u]]
    /\ clock' = clock + 1
    /\ UNCHANGED <<platformDataTypes, notificationStore>>
    /\ UNCHANGED <<user, recruiterProfile, isPublic, connectionSync, platformDataRows>>
    /\ UNCHANGED <<candidateProfile, platformConnection, platformData, weights>>

\* a call that no other call overlaps
calculateAndStoreScoreAlone(u) ==
    /\ NoneInFlight
    /\ calculateAndStoreScore(u)

\* ------------------------------------------------------------------------
\* AggregationService.refreshAndRecalculate
\* ------------------------------------------------------------------------
refreshAndRecalculate(u) ==
    IF ~HasProfile(u)
    THEN /\ lastResult' = Thrown("refreshAndRecalculate", u, NotFound)
         /\ UNCHANGED <<platformDataTypes, notificationStore, runs>>
         /\ UNCHANGED <<user, recruiterProfile, isPublic, connectionSync, platformDataRows>>
         /\ UNCHANGED <<candidateProfile, platformConnection, platformData, candidateScore,
                        weights, clock, calls>>
    ELSE \E o \in FetchOutcomes(Fetchable(candidateProfile[u])) :
            /\ platformData' = StoreFetched(candidateProfile[u], o)
            /\ platformDataTypes' = StoreFetchedTypes(candidateProfile[u], o)
            /\ CalculateAndStore("refreshAndRecalculate", u,
                                 StoreFetched(candidateProfile[u], o),
                                 StoreFetchedTypes(candidateProfile[u], o), Fetched(o))
            /\ UNCHANGED <<notificationStore, runs>>
            /\ \E f \in RowChoices(candidateProfile[u]) :
                   platformDataRows' = StoreFetchedRows(candidateProfile[u], o, f)
            /\ connectionSync' = SyncFetched(candidateProfile[u], o, clock)
            /\ UNCHANGED <<user, recruiterProfile, isPublic>>
            /\ UNCHANGED <<candidateProfile, platformConnection, weights>>

\* ------------------------------------------------------------------------
\* AggregationService.getCurrentScore, getScoreHistory, setWeights, getWeights
\* ------------------------------------------------------------------------
\* null is NoScore
getCurrentScore(u) ==
    IF ~HasProfile(u) THEN NoScore
    ELSE IF LatestScores(candidateProfile[u]) = {} THEN NoScore
    ELSE calculateCompositeScore(CachedProfile(u), weights, clock)

\* the indexes of rows, ordered by createdAt descending
RECURSIVE OrderByCreatedAtDesc(_)
OrderByCreatedAtDesc(rows) ==
    IF rows = {} THEN <<>>
    ELSE LET i == CHOOSE r \in rows :
                    \A q \in rows : \/ candidateScore[q].createdAt < candidateScore[r].createdAt
                                    \/ /\ candidateScore[q].createdAt = candidateScore[r].createdAt
                                       /\ q <= r
         IN  <<i>> \o OrderByCreatedAtDesc(rows \ {i})

getScoreHistory(u, limit) ==
    IF ~HasProfile(u) THEN <<>>
    ELSE LET scores == Slice(OrderByCreatedAtDesc(ScoresOf(candidateProfile[u])), limit)
         IN  [i \in 1..Len(scores) |-> ScoreFromRecord(candidateScore[scores[i]], weights)]

\* { ...this.weights, ...weights }
MergeWeights(w, patch) ==
    [f \in Families |-> IF f \in DOMAIN patch THEN patch[f] ELSE w[f]]

setWeights(patch) ==
    /\ weights' = MergeWeights(weights, patch)
    /\ lastResult' = Void
    /\ UNCHANGED <<platformDataTypes, notificationStore, runs>>
    /\ UNCHANGED <<user, recruiterProfile, isPublic, connectionSync, platformDataRows>>
    /\ UNCHANGED <<candidateProfile, platformConnection, platformData, candidateScore,
                   clock, calls>>

getWeights == weights

\* ------------------------------------------------------------------------
\* ProfileService.upsertPlatformConnection
\* ------------------------------------------------------------------------
upsertPlatformConnection(u, p, username) ==
    IF ~HasProfile(u)
    THEN /\ lastResult' = Thrown("upsertPlatformConnection", u, NotFound)
         /\ UNCHANGED <<platformDataTypes, notificationStore, runs>>
         /\ UNCHANGED <<user, recruiterProfile, isPublic, connectionSync, platformDataRows>>
         /\ UNCHANGED <<candidateProfile, platformConnection, platformData, candidateScore,
                        weights, clock, calls>>
    ELSE /\ platformConnection' =
                [platformConnection EXCEPT ![candidateProfile[u]][p] = username]
         /\ connectionSync' = [connectionSync EXCEPT ![candidateProfile[u]][p] = NeverSynced]
         /\ lastResult' = Void
         /\ UNCHANGED <<platformDataTypes, notificationStore, runs>>
         /\ UNCHANGED <<user, recruiterProfile, isPublic, platformDataRows>>
         /\ UNCHANGED <<candidateProfile, platformData, candidateScore, weights, clock, calls>>

\* ------------------------------------------------------------------------
\* LinkedInConnector.storeManualData
\* ------------------------------------------------------------------------
storeManualData(cid, data) ==
    /\ platformData' = [platformData EXCEPT ![cid][LINKEDIN] = data]
    /\ platformDataTypes' = [platformDataTypes EXCEPT ![cid][LINKEDIN] = AllTypes(LINKEDIN)]
    /\ \E f \in RowChoices(cid) :
           platformDataRows' =
               [platformDataRows EXCEPT ![cid][LINKEDIN] =
                   [t \in DataTypes |-> IF t \in AllTypes(LINKEDIN)
                                        THEN StoreRow(@[t], data, f[<<LINKEDIN, t>>])
                                        ELSE @[t]]]
    /\ connectionSync' =
           IF platformConnection[cid][LINKEDIN] = NoConnection THEN connectionSync
           ELSE [connectionSync EXCEPT ![cid][LINKEDIN] =
                    [isVerified |-> FALSE, lastSynced |-> DayOf(clock)]]
    /\ lastResult' = Void
    /\ UNCHANGED <<notificationStore, runs>>
    /\ UNCHANGED <<user, recruiterProfile, isPublic>>
    /\ UNCHANGED <<candidateProfile, platformConnection, candidateScore, weights, clock, calls>>

\* ------------------------------------------------------------------------
\* NotificationService
\* ------------------------------------------------------------------------
SCORE_IMPROVEMENT == "SCORE_IMPROVEMENT"
SCORE_DECLINE == "SCORE_DECLINE"
NEW_RECOMMENDATION == "NEW_RECOMMENDATION"

\* the notifications kept for one user
StoreLimit == 100

\* id, title and message, which nothing reads, are left out
Notification(u, type, data, now) ==
    [userId |-> u, type |-> type, data |-> data, read |-> FALSE, createdAt |-> now]

\* mutant: one list shared by all users
CreateNotificationShared(store, n) ==
    [u \in DOMAIN store |-> Slice(<<n>> \o store[u], StoreLimit)]

\* createNotification: the store afterwards
CreateNotification(store, n) ==
    [store EXCEPT ![n.userId] = Slice(<<n>> \o @, StoreLimit)]

\* previous?.overallScore || 0
PreviousScoreOr0(r) == IF r.previous = NoScore THEN 0 ELSE r.previous.overallScore

\* mutant: a score that went down is reported as an improvement
ScoreUpdateNotificationAlwaysImprovement(u, r, now) ==
    Notification(u, SCORE_IMPROVEMENT,
                 [previousScore |-> PreviousScoreOr0(r),
                  currentScore |-> r.current.overallScore,
                  changeAmount |-> r.changeAmount,
                  affectedPlatforms |-> r.current.breakdown.platformsConnected,
                  recommendations |-> Slice(r.current.recommendations, 3)],
                 now)

\* the notification notifyScoreUpdate creates for a changed score
ScoreUpdateNotification(u, r, now) ==
    Notification(u,
                 IF r.changeAmount > 0 THEN SCORE_IMPROVEMENT ELSE SCORE_DECLINE,
                 [previousScore |-> PreviousScoreOr0(r),
                  currentScore |-> r.current.overallScore,
                  changeAmount |-> r.changeAmount,
                  affectedPlatforms |-> r.current.breakdown.platformsConnected,
                  recommendations |-> Slice(r.current.recommendations, 3)],
                 now)

\* notifyScoreUpdate: the store afterwards
NotifyScoreUpdate(store, u, r, now) ==
    IF ~r.changed THEN store
    ELSE CreateNotification(store, ScoreUpdateNotification(u, r, now))

\* notifyScoreUpdate(userId, scoreResult), handed the result of the scoring run before
notifyScoreUpdate(u) ==
    /\ lastResult.op \in {"calculateAndStoreScore", "refreshAndRecalculate"}
    /\ lastResult.error = ""
    /\ lastResult.userId = u
    /\ LET r == lastResult.value
       IN  /\ notificationStore' = NotifyScoreUpdate(notificationStore, u, r, clock)
           /\ lastResult' = Returned("notifyScoreUpdate", u,
                                     IF ~r.changed THEN NoValue
                                     ELSE ScoreUpdateNotification(u, r, clock),
                                     {r})
    /\ UNCHANGED <<platformDataTypes, runs>>
    /\ UNCHANGED <<user, recruiterProfile, isPublic, connectionSync, platformDataRows>>
    /\ UNCHANGED <<candidateProfile, platformConnection, platformData, candidateScore,
                   weights, clock, calls>>

\* notifyNewRecommendations: the store afterwards
NotifyNewRecommendations(store, u, recommendations, now) ==
    IF Len(recommendations) = 0 THEN store
    ELSE CreateNotification(store, Notification(u, NEW_RECOMMENDATION,
                                                [recommendations |-> recommendations], now))

\* ------------------------------------------------------------------------
\* ScoreUpdateService.onPlatformDataChanged
\* ------------------------------------------------------------------------
\* newRecs, empty when nothing is to be notified
NewRecs(r) ==
    IF Len(r.current.recommendations) > 0
    THEN IF r.previous # NoScore
         THEN SelectSeq(r.current.recommendations,
                        LAMBDA x : ~Contains(r.previous.recommendations, x))
         ELSE r.current.recommendations
    ELSE <<>>

onPlatformDataChanged(u, platform) ==
    IF ~HasProfile(u)
    THEN /\ lastResult' = Thrown("onPlatformDataChanged", u, NotFound)
         /\ UNCHANGED <<platformDataTypes, notificationStore, runs>>
         /\ UNCHANGED <<user, recruiterProfile, isPublic, connectionSync, platformDataRows>>
         /\ UNCHANGED <<candidateProfile, platformConnection, platformData, candidateScore,
                        weights, clock, calls>>
    ELSE /\ CalculateAndStore("onPlatformDataChanged", u, platformData, platformDataTypes, {})
         /\ notificationStore' =
                NotifyNewRecommendations(
                    NotifyScoreUpdate(notificationStore, u, lastResult'.value, clock),
                    u, NewRecs(lastResult'.value), clock)
         /\ UNCHANGED <<platformDataTypes, runs>>
         /\ UNCHANGED <<user, recruiterProfile, isPublic, connectionSync, platformDataRows>>
         /\ UNCHANGED <<candidateProfile, platformConnection, platformData, weights>>

\* ------------------------------------------------------------------------
\* AuthService.registerCandidate, registerRecruiter: a call stops between its
\* findUnique and its transaction (hashPassword), where other calls can run.
\* Password, name, token and the profile texts, which nothing here reads, are
\* left out
\* ------------------------------------------------------------------------
EmailExists == "User with this email already exists"

\* what prisma throws when user.create meets a row with the same email:
\* user.findUnique({ where: { email } }) is typed only for a unique column
UniqueConstraintFailed == "Unique constraint failed on the fields: (email)"

Registered(email) == \E x \in user : x.email = email

\* the id the next user row gets
NewUserId == CHOOSE u \in DOMAIN candidateProfile : \A x \in user : x.id # u

\* the id the next candidate profile gets
NewProfileId ==
    CHOOSE c \in DOMAIN platformConnection :
        \A u \in DOMAIN candidateProfile : candidateProfile[u] # c

\* mutant: the transaction starts without a look at the registered emails
RegisterFindUniqueBlind(r, op, email, ps) ==
    /\ runs[r].pc \in {"idle", "returned"}
    /\ runs' = [runs EXCEPT ![r] = [pc |-> "transaction", op |-> op, email |-> email,
                                    platforms |-> ps]]
    /\ UNCHANGED lastResult
    /\ UNCHANGED <<platformDataTypes, notificationStore>>
    /\ UNCHANGED <<user, recruiterProfile, isPublic, connectionSync, platformDataRows>>
    /\ UNCHANGED <<candidateProfile, platformConnection, platformData, candidateScore,
                   weights, clock, calls>>

\* prisma.user.findUnique({ where: { email } }) of call r and the throw when a user exists
RegisterFindUnique(r, op, email, ps) ==
    /\ runs[r].pc \in {"idle", "returned"}
    /\ IF Registered(email)
       THEN /\ runs' = [runs EXCEPT ![r] = [pc |-> "returned", op |-> op, email |-> email]]
            /\ lastResult' = Thrown(op, "", EmailExists)
       ELSE /\ runs' = [runs EXCEPT ![r] = [pc |-> "transaction", op |-> op, email |-> email,
                                           platforms |-> ps]]
            /\ UNCHANGED lastResult
    /\ UNCHANGED <<platformDataTypes, notificationStore>>
    /\ UNCHANGED <<user, recruiterProfile, isPublic, connectionSync, platformDataRows>>
    /\ UNCHANGED <<candidateProfile, platformConnection, platformData, candidateScore,
                   weights, clock, calls>>

\* prisma.$transaction of call r: all of its rows or, when it throws, none
RegisterTransaction(r) ==
    /\ runs[r].pc = "transaction"
    /\ runs' = [runs EXCEPT ![r] = [pc |-> "returned", op |-> @.op, email |-> @.email]]
    /\ IF Registered(runs[r].email)
       THEN /\ lastResult' = Thrown(runs[r].op, "", UniqueConstraintFailed)
            /\ UNCHANGED <<user, recruiterProfile, isPublic, connectionSync,
                           candidateProfile, platformConnection>>
       ELSE /\ lastResult' = Returned(runs[r].op, NewUserId,
                                      [email |-> runs[r].email,
                                       userType |-> IF runs[r].op = "registerCandidate"
                                                    THEN CANDIDATE ELSE RECRUITER],
                                      {})
            /\ user' = user \cup {[id |-> NewUserId,
                                   email |-> runs[r].email,
                                   userType |-> IF runs[r].op = "registerCandidate"
                                                THEN CANDIDATE ELSE RECRUITER]}
            /\ IF runs[r].op = "registerCandidate"
               THEN /\ candidateProfile' = [candidateProfile EXCEPT ![NewUserId] = NewProfileId]
                    /\ isPublic' = [isPublic EXCEPT ![NewProfileId] = FALSE]
                    /\ platformConnection' =
                           [platformConnection EXCEPT ![NewProfileId] =
                               [p \in Platforms |-> IF p \in runs[r].platforms
                                                    THEN "alice" ELSE NoConnection]]
                    /\ connectionSync' =
                           [connectionSync EXCEPT ![NewProfileId] =
                               [p \in Platforms |-> NeverSynced]]
                    /\ UNCHANGED recruiterProfile
               ELSE /\ recruiterProfile' = recruiterProfile \cup {NewUserId}
                    /\ UNCHANGED <<isPublic, connectionSync, candidateProfile,
                                   platformConnection>>
    /\ UNCHANGED <<platformDataTypes, notificationStore, platformDataRows>>
    /\ UNCHANGED <<platformData, candidateScore, weights, clock, calls>>

\* registerCandidate(data) as far as its findUnique; ps are the platforms of
\* data.platformConnections
registerCandidate(r, email, ps) == RegisterFindUnique(r, "registerCandidate", email, ps)

\* registerRecruiter(data) as far as its findUnique
registerRecruiter(r, email) == RegisterFindUnique(r, "registerRecruiter", email, {})

\* ------------------------------------------------------------------------
\* ProfileService.getCandidateProfile, toggleProfileVisibility
\* ------------------------------------------------------------------------
NoCandidateProfile == [userId |-> ""]

\* the profile with its connections, or null
getCandidateProfile(u) ==
    IF ~HasProfile(u) THEN NoCandidateProfile
    ELSE [userId |-> u,
          id |-> candidateProfile[u],
          isPublic |-> isPublic[candidateProfile[u]],
          platformConnections |-> Connected(candidateProfile[u])]

\* mutant: the profile is made public whatever it was
toggleProfileVisibilityOn(u) ==
    IF ~HasProfile(u)
    THEN /\ lastResult' = Thrown("toggleProfileVisibility", u, NotFound)
         /\ UNCHANGED <<platformDataTypes, notificationStore, runs>>
         /\ UNCHANGED <<user, recruiterProfile, isPublic, connectionSync, platformDataRows>>
         /\ UNCHANGED <<candidateProfile, platformConnection, platformData, candidateScore,
                        weights, clock, calls>>
    ELSE /\ calls[u].toggles < MaxCalls
         /\ isPublic' = [isPublic EXCEPT ![candidateProfile[u]] = TRUE]
         /\ lastResult' = Returned("toggleProfileVisibility", u, [isPublic |-> TRUE], {})
         /\ calls' = [calls EXCEPT ![u].toggles = @ + 1]
         /\ UNCHANGED <<platformDataTypes, notificationStore, runs>>
         /\ UNCHANGED <<user, recruiterProfile, connectionSync, platformDataRows>>
         /\ UNCHANGED <<candidateProfile, platformConnection, platformData, candidateScore,
                        weights, clock>>

toggleProfileVisibility(u) ==
    IF ~HasProfile(u)
    THEN /\ lastResult' = Thrown("toggleProfileVisibility", u, NotFound)
         /\ UNCHANGED <<platformDataTypes, notificationStore, runs>>
         /\ UNCHANGED <<user, recruiterProfile, isPublic, connectionSync, platformDataRows>>
         /\ UNCHANGED <<candidateProfile, platformConnection, platformData, candidateScore,
                        weights, clock, calls>>
    ELSE /\ calls[u].toggles < MaxCalls
         /\ isPublic' = [isPublic EXCEPT ![candidateProfile[u]] = ~@]
         /\ lastResult' = Returned("toggleProfileVisibility", u,
                                   [isPublic |-> ~isPublic[candidateProfile[u]]], {})
         /\ calls' = [calls EXCEPT ![u].toggles = @ + 1]
         /\ UNCHANGED <<platformDataTypes, notificationStore, runs>>
         /\ UNCHANGED <<user, recruiterProfile, connectionSync, platformDataRows>>
         /\ UNCHANGED <<candidateProfile, platformConnection, platformData, candidateScore,
                        weights, clock>>

\* ------------------------------------------------------------------------
\* Connector.fetchAndStoreData and getCachedData row by row: a refresh stops
\* at each await on the persistence layer (the findFirst and the update or
\* create of each storePlatformData, the final updateMany), where cached
\* reads and other refreshes can run
\* ------------------------------------------------------------------------
\* fetchAllData(username) of call r returned data
FetchAllData(r, cid, p, data) ==
    /\ runs[r] = Idle
    /\ runs' = [runs EXCEPT ![r] = [pc |-> "findFirst", op |-> "fetchAndStoreData",
                                    candidateId |-> cid, platform |-> p, data |-> data,
                                    k |-> 1]]
    /\ UNCHANGED <<platformDataTypes, notificationStore>>
    /\ UNCHANGED <<user, recruiterProfile, isPublic, connectionSync, platformDataRows>>
    /\ UNCHANGED <<candidateProfile, platformConnection, platformData, candidateScore,
                   weights, clock, calls, lastResult>>

\* the rows of the key call r is about to store
RowsOfRun(r) ==
    platformDataRows[runs[r].candidateId][runs[r].platform][StoredTypes(runs[r].platform)[runs[r].k]]

\* storePlatformData: prisma.platformData.findFirst({ where: { candidateId, platform, dataType } })
\* returns one of the rows of the key, found is 0 when there is none
StoreFindFirst(r) ==
    /\ runs[r].pc = "findFirst"
    /\ \E i \in (IF RowsOfRun(r) = <<>> THEN {0} ELSE 1..Len(RowsOfRun(r))) :
          runs' = [runs EXCEPT ![r] = [pc |-> "write", op |-> @.op,
                                       candidateId |-> @.candidateId, platform |-> @.platform,
                                       data |-> @.data, k |-> @.k, found |-> i]]
    /\ UNCHANGED <<platformDataTypes, notificationStore>>
    /\ UNCHANGED <<user, recruiterProfile, isPublic, connectionSync, platformDataRows>>
    /\ UNCHANGED <<candidateProfile, platformConnection, platformData, candidateScore,
                   weights, clock, calls, lastResult>>

\* storePlatformData: prisma.platformData.update of the row found, or create
StoreWrite(s, found, data) ==
    IF found = 0 THEN Append(s, data) ELSE [s EXCEPT ![found] = data]

\* the update or create of call r, after which it goes on to its next row or to the updateMany
StorePlatformData(r) ==
    /\ runs[r].pc = "write"
    /\ LET cid == runs[r].candidateId
           p == runs[r].platform
           t == StoredTypes(p)[runs[r].k]
       IN  /\ platformDataRows' =
                  [platformDataRows EXCEPT ![cid][p][t] =
                      StoreWrite(@, runs[r].found, runs[r].data)]
           /\ platformDataTypes' = [platformDataTypes EXCEPT ![cid][p] = @ \cup {t}]
           /\ platformData' =
                  IF t = "metrics" \/ platformData[cid][p] = NoData
                  THEN [platformData EXCEPT ![cid][p] = runs[r].data]
                  ELSE platformData
           /\ runs' = [runs EXCEPT ![r] =
                          [pc |-> IF runs[r].k = Len(StoredTypes(p)) THEN "updateMany"
                                  ELSE "findFirst",
                           op |-> @.op, candidateId |-> cid, platform |-> p,
                           data |-> @.data, k |-> @.k + 1]]
    /\ UNCHANGED notificationStore
    /\ UNCHANGED <<user, recruiterProfile, isPublic, connectionSync>>
    /\ UNCHANGED <<candidateProfile, platformConnection, candidateScore,
                   weights, clock, calls, lastResult>>

\* prisma.platformConnection.updateMany and the return of call r
FetchUpdateMany(r) ==
    /\ runs[r].pc = "updateMany"
    /\ LET cid == runs[r].candidateId
           p == runs[r].platform
       IN  /\ connectionSync' =
                  IF platformConnection[cid][p] = NoConnection THEN connectionSync
                  ELSE [connectionSync EXCEPT ![cid][p] =
                           [isVerified |-> TRUE, lastSynced |-> DayOf(clock)]]
           /\ lastResult' = Returned("fetchAndStoreData", cid, runs[r].data, {p})
           /\ runs' = [runs EXCEPT ![r] = [pc |-> "returned", op |-> @.op,
                                           candidateId |-> cid, platform |-> p]]
    /\ UNCHANGED <<platformDataTypes, notificationStore, platformDataRows>>
    /\ UNCHANGED <<user, recruiterProfile, isPublic>>
    /\ UNCHANGED <<candidateProfile, platformConnection, platformData, candidateScore,
                   weights, clock, calls>>

\* what getCachedData can return over the rows: null, or for each dataType it
\* asks for the data of the row platformData.find(d => d.dataType === ...) meets first
CachedReads(cid, p) ==
    LET rows == platformDataRows[cid][p]
    IN  IF \E t \in RequiredTypes(p) : rows[t] = <<>> THEN {NoData}
        ELSE {[parts |-> f] :
                f \in {g \in [RequiredTypes(p) -> FetchPool(p)] :
                          \A t \in RequiredTypes(p) : Contains(rows[t], g[t])}}

\* connector.getCachedData(candidateId): one findMany
getCachedDataOfRows(cid, p) ==
    /\ \E v \in CachedReads(cid, p) : lastResult' = Returned("getCachedData", cid, v, {p})
    /\ UNCHANGED <<platformDataTypes, notificationStore, runs>>
    /\ UNCHANGED <<user, recruiterProfile, isPublic, connectionSync, platformDataRows>>
    /\ UNCHANGED <<candidateProfile, platformConnection, platformData, candidateScore,
                   weights, clock, calls>>

\* ------------------------------------------------------------------------
\* ScoreUpdateService.refreshAndNotify, schedulePeriodicUpdate
\* ------------------------------------------------------------------------
PLATFORM_DATA_REFRESHED == "PLATFORM_DATA_REFRESHED"

\* candidateProfile.platformConnections.some(c => !c.lastSynced || c.lastSynced < staleThreshold)
\* with staleThreshold = new Date(Date.now() - 24 * 60 * 60 * 1000)
HasStaleData(cid, now) ==
    \E p \in Connected(cid) :
        \/ connectionSync[cid][p].lastSynced = Null
        \/ connectionSync[cid][p].lastSynced < DayOf(now - DayMs)

\* notifyDataRefreshed, when there is a connection, and notifyScoreUpdate: the store afterwards
NotifyRefreshed(store, u, platforms, r, now) ==
    NotifyScoreUpdate(
        IF platforms = {} THEN store
        ELSE CreateNotification(store, Notification(u, PLATFORM_DATA_REFRESHED,
                                                    [platforms |-> platforms], now)),
        u, r, now)

\* schedulePeriodicUpdate(userId); what it leaves in lastResult is the result
\* of the refreshAndNotify it awaited, if any
schedulePeriodicUpdate(u) ==
    IF ~HasProfile(u) \/ ~HasStaleData(candidateProfile[u], clock)
    THEN /\ lastResult' = Returned("schedulePeriodicUpdate", u, NoValue, {})
         /\ UNCHANGED <<platformDataTypes, notificationStore, runs>>
         /\ UNCHANGED <<user, recruiterProfile, isPublic, connectionSync, platformDataRows>>
         /\ UNCHANGED <<candidateProfile, platformConnection, platformData, candidateScore,
                        weights, clock, calls>>
    ELSE \E o \in FetchOutcomes(Fetchable(candidateProfile[u])) :
            /\ platformData' = StoreFetched(candidateProfile[u], o)
            /\ platformDataTypes' = StoreFetchedTypes(candidateProfile[u], o)
            /\ \E f \in RowChoices(candidateProfile[u]) :
                   platformDataRows' = StoreFetchedRows(candidateProfile[u], o, f)
            /\ connectionSync' = SyncFetched(candidateProfile[u], o, clock)
            /\ CalculateAndStore("schedulePeriodicUpdate", u,
                                 StoreFetched(candidateProfile[u], o),
                                 StoreFetchedTypes(candidateProfile[u], o), Fetched(o))
            /\ notificationStore' =
                   NotifyRefreshed(notificationStore, u, Connected(candidateProfile[u]),
                                   lastResult'.value, clock)
            /\ UNCHANGED runs
            /\ UNCHANGED <<user, recruiterProfile, isPublic>>
            /\ UNCHANGED <<candidateProfile, platformConnection, weights>>

\* ------------------------------------------------------------------------
\* NotificationService.createNotification, markAsRead, markAllAsRead,
\* getUnreadCount, deleteNotification, clearAllNotifications.  The ids of a
\* list are distinct, so a notificationId is given as the position of the
\* notification that carries it, or 0 for an id none carries.  Every call
\* takes place a ms after the one before
\* ------------------------------------------------------------------------
createNotification(u, type, data) ==
    /\ clock < MaxCalls
    /\ notificationStore' = CreateNotification(notificationStore,
                                               Notification(u, type, data, clock))
    /\ lastResult' = Returned("createNotification", u, Notification(u, type, data, clock), {})
    /\ clock' = clock + 1
    /\ UNCHANGED <<platformDataTypes, runs>>
    /\ UNCHANGED <<user, recruiterProfile, isPublic, connectionSync, platformDataRows>>
    /\ UNCHANGED <<candidateProfile, platformConnection, platformData, candidateScore,
                   weights, calls>>

markAsRead(u, i) ==
    /\ clock < MaxCalls
    /\ notificationStore' =
           IF i \in 1..Len(notificationStore[u])
           THEN [notificationStore EXCEPT ![u][i].read = TRUE]
           ELSE notificationStore
    /\ lastResult' = Returned("markAsRead", u, i \in 1..Len(notificationStore[u]), {i})
    /\ clock' = clock + 1
    /\ UNCHANGED <<platformDataTypes, runs>>
    /\ UNCHANGED <<user, recruiterProfile, isPublic, connectionSync, platformDataRows>>
    /\ UNCHANGED <<candidateProfile, platformConnection, platformData, candidateScore,
                   weights, calls>>

\* notifications.filter(n => !n.read).length
getUnreadCount(u) == Len(SelectSeq(notificationStore[u], LAMBDA n : ~n.read))

\* mutant: only the newest notification is marked
markAllAsReadNewest(u) ==
    /\ clock < MaxCalls
    /\ notificationStore' =
           [notificationStore EXCEPT ![u] =
               [i \in 1..Len(@) |-> IF i = 1 THEN [@[i] EXCEPT !.read = TRUE] ELSE @[i]]]
    /\ lastResult' = Returned("markAllAsRead", u, getUnreadCount(u), {})
    /\ clock' = clock + 1
    /\ UNCHANGED <<platformDataTypes, runs>>
    /\ UNCHANGED <<user, recruiterProfile, isPublic, connectionSync, platformDataRows>>
    /\ UNCHANGED <<candidateProfile, platformConnection, platformData, candidateScore,
                   weights, calls>>

\* returns the number of notifications it marked
markAllAsRead(u) ==
    /\ clock < MaxCalls
    /\ notificationStore' =
           [notificationStore EXCEPT ![u] = [i \in 1..Len(@) |-> [@[i] EXCEPT !.read = TRUE]]]
    /\ lastResult' = Returned("markAllAsRead", u, getUnreadCount(u), {})
    /\ clock' = clock + 1
    /\ UNCHANGED <<platformDataTypes, runs>>
    /\ UNCHANGED <<user, recruiterProfile, isPublic, connectionSync, platformDataRows>>
    /\ UNCHANGED <<candidateProfile, platformConnection, platformData, candidateScore,
                   weights, calls>>

\* notifications.splice(index, 1)
deleteNotification(u, i) ==
    /\ clock < MaxCalls
    /\ notificationStore' =
           IF i \in 1..Len(notificationStore[u])
           THEN [notificationStore EXCEPT ![u] =
                    SubSeq(@, 1, i - 1) \o SubSeq(@, i + 1, Len(@))]
           ELSE notificationStore
    /\ lastResult' = Returned("deleteNotification", u, i \in 1..Len(notificationStore[u]), {i})
    /\ clock' = clock + 1
    /\ UNCHANGED <<platformDataTypes, runs>>
    /\ UNCHANGED <<user, recruiterProfile, isPublic, connectionSync, platformDataRows>>
    /\ UNCHANGED <<candidateProfile, platformConnection, platformData, candidateScore,
                   weights, calls>>

clearAllNotifications(u) ==
    /\ clock < MaxCalls
    /\ notificationStore' = [notificationStore EXCEPT ![u] = <<>>]
    /\ lastResult' = Returned("clearAllNotifications", u, NoValue, {})
    /\ clock' = clock + 1
    /\ UNCHANGED <<platformDataTypes, runs>>
    /\ UNCHANGED <<user, recruiterProfile, isPublic, connectionSync, platformDataRows>>
    /\ UNCHANGED <<candidateProfile, platformConnection, platformData, candidateScore,
                   weights, calls>>

\* ------------------------------------------------------------------------
\* The system
\* ------------------------------------------------------------------------
Init ==
    /\ candidateProfile = [u \in Users |-> IF u = "u1" THEN "c1" ELSE NoProfile]
    /\ platformConnection = [c \in CandidateIds |-> [p \in Platforms |-> NoConnection]]
    /\ platformData = [c \in CandidateIds |-> [p \in Platforms |-> NoData]]
    /\ candidateScore = <<>>
    /\ weights = DEFAULT_WEIGHTS
    /\ clock = 0
    /\ calls = [u \in Users |-> [n |-> 0, last |-> Null, recommendations |-> <<>>, toggles |-> 0]]
    /\ platformDataTypes = TypesOf(platformData)
    /\ notificationStore = [u \in Users |-> <<>>]
    /\ runs = [r \in RunIds |-> Idle]
    /\ user = UsersOf(candidateProfile)
    /\ recruiterProfile = {u \in DOMAIN candidateProfile : candidateProfile[u] = NoProfile}
    /\ isPublic = [c \in DOMAIN platformConnection |-> FALSE]
    /\ connectionSync = SyncOf(platformConnection, platformDataTypes)
    /\ platformDataRows = RowsFrom(platformData, platformDataTypes)
    /\ lastResult = Void

Next ==
    \/ \E u \in Users : aggregateProfile(u)
    \/ \E u \in Users : refreshAllPlatformData(u)
    \/ \E u \in Users : calculateAndStoreScore(u)
    \/ \E u \in Users : refreshAndRecalculate(u)
    \/ \E patch \in WeightPatches : setWeights(patch)
    \* a platform is connected
    \/ \E u \in Users, p \in InputPlatforms, n \in Usernames :
          /\ HasProfile(u) => platformConnection[candidateProfile[u]][p] # n
          /\ upsertPlatformConnection(u, p, n)
    \/ \E c \in CandidateIds, d \in ManualPool : storeManualData(c, d)

Spec == Init /\ [][Next]_vars

\* ------------------------------------------------------------------------
\* Type invariant
\* ------------------------------------------------------------------------
TypeOK ==
    /\ clock \in 0..MaxCalls
    /\ \A u \in Users : calls[u].n \in 0..MaxCalls
    /\ \A f \in Families : weights[f] \in 0..WeightScale

\* ------------------------------------------------------------------------
\* The scoring function over every cache content and weight configuration:
\* the candidate has connected every platform and each cache holds either
\* nothing or one of the data sets of ScorePool
\* ------------------------------------------------------------------------
RECURSIVE Caches(_)
Caches(ps) ==
    IF ps = {} THEN {[p \in Platforms |-> NoData]}
    ELSE LET p == CHOOSE x \in ps : TRUE
         IN  {[c EXCEPT ![p] = d] : c \in Caches(ps \ {p}), d \in ScorePool(p) \cup {NoData}}

InitScore ==
    /\ candidateProfile = [u \in Users |-> IF u = "u1" THEN "c1" ELSE NoProfile]
    /\ platformConnection = [c \in CandidateIds |-> [p \in Platforms |-> "alice"]]
    /\ platformData \in {[c \in CandidateIds |-> d] : d \in Caches(Platforms)}
    /\ candidateScore = <<>>
    /\ weights = DEFAULT_WEIGHTS
    /\ clock = 0
    /\ calls = [u \in Users |-> [n |-> 0, last |-> Null, recommendations |-> <<>>, toggles |-> 0]]
    /\ platformDataTypes = TypesOf(platformData)
    /\ notificationStore = [u \in Users |-> <<>>]
    /\ runs = [r \in RunIds |-> Idle]
    /\ user = UsersOf(candidateProfile)
    /\ recruiterProfile = {u \in DOMAIN candidateProfile : candidateProfile[u] = NoProfile}
    /\ isPublic = [c \in DOMAIN platformConnection |-> FALSE]
    /\ connectionSync = SyncOf(platformConnection, platformDataTypes)
    /\ platformDataRows = RowsFrom(platformData, platformDataTypes)
    /\ lastResult = Void

NextScore ==
    \/ \E patch \in ScoreWeightPatches : setWeights(patch)
    \/ calculateAndStoreScore("u1")

SpecScore == InitScore /\ [][NextScore]_vars

\* ------------------------------------------------------------------------
\* The four calculateMetrics over bounded inputs
\* ------------------------------------------------------------------------
\* <<ownRepos, hasReadme, hasLicense, hasTopics, activeRepos, languages, totalStars, totalForks>>
GitHubRepositories ==
    {<<0, 0, 0, 0, 0, 0, 0, 0>>,
     <<2, 1, 0, 1, 1, 3, 40, 5>>,
     <<3, 2, 2, 0, 3, 5, 100, 50>>,
     <<5, 5, 3, 5, 4, 12, 5000, 800>>}

GitHubInputs ==
    {[ownRepos |-> r[1], hasReadme |-> r[2], hasLicense |-> r[3], hasTopics |-> r[4],
      activeRepos |-> r[5], languages |-> r[6], totalStars |-> r[7], totalForks |-> r[8],
      followers |-> f, bio |-> b, totalCommits |-> c, totalPRs |-> p,
      totalReviews |-> v, totalIssues |-> i] :
        r \in GitHubRepositories, f \in {0, 90, 20000}, b \in BOOLEAN,
        c \in {0, 730, 40000}, p \in {0, 30, 1000}, v \in {0, 25}, i \in {0, 10}}

\* <<originalTweets, totalLikes, totalRetweets, technicalTweets, hashtags, spanDays>>
TwitterTweets ==
    {<<0, 0, 0, 0, 0, 0>>,
     <<1, 3, 0, 0, 1, 0>>,
     <<4, 20, 8, 1, 3, 14>>,
     <<10, 30, 10, 2, 2, 70>>,
     <<20, 400, 200, 20, 8, 7>>}

TwitterInputs ==
    {[originalTweets |-> t[1], totalLikes |-> t[2], totalRetweets |-> t[3],
      technicalTweets |-> t[4], hashtags |-> t[5], spanDays |-> t[6],
      followers |-> f, listedCount |-> l, verified |-> v, bio |-> b] :
        t \in TwitterTweets, f \in {0, 50, 3050, 20000}, l \in {0, 40, 500},
        v \in BOOLEAN, b \in BOOLEAN}

\* <<months of each experience, experiences with a description>>
LinkedInExperiences ==
    {<<<<>>, 0>>, <<<<6>>, 0>>, <<<<9, 3>>, 2>>, <<<<30, -2>>, 1>>, <<<<40, 30, 24>>, 3>>}

\* <<education, hasAdvancedDegree, hasFieldOfStudy>>
LinkedInEducations == {<<0, FALSE, FALSE>>, <<1, FALSE, TRUE>>, <<2, TRUE, TRUE>>}

\* <<skills, endorsements>>
LinkedInSkills == {<<0, 0>>, <<4, 0>>, <<10, 20>>, <<12, 60>>}

\* <<headline, bio>>
LinkedInTexts == {<<FALSE, FALSE>>, <<TRUE, FALSE>>, <<TRUE, TRUE>>}

LinkedInInputs ==
    {[months |-> x[1], described |-> x[2], education |-> e[1],
      hasAdvancedDegree |-> e[2], hasFieldOfStudy |-> e[3], skills |-> k[1],
      endorsements |-> k[2], connections |-> c, headline |-> t[1], bio |-> t[2],
      certifications |-> n] :
        x \in LinkedInExperiences, e \in LinkedInEducations, k \in LinkedInSkills,
        c \in {0, 300, 800}, t \in LinkedInTexts, n \in {0, 2}}

\* <<posts, spanDays, totalReadingTime, withCoverImage, withExcerpt, uniqueTags>>
BlogPosts ==
    {<<1, 0, 2, 0, 1, 2>>,
     <<3, 90, 7, 2, 0, 4>>,
     <<6, 45, 24, 6, 6, 7>>,
     <<8, 30, 40, 8, 8, 10>>,
     <<25, 400, 50, 10, 5, 12>>}

BlogInputs ==
    {[posts |-> 0, spanDays |-> 0, totalReadingTime |-> 0, withCoverImage |-> 0,
      withExcerpt |-> 0, uniqueTags |-> 0, totalReactions |-> 0, totalComments |-> 0,
      followers |-> f] : f \in {0, 35, 250}}
    \cup
    {[posts |-> p[1], spanDays |-> p[2], totalReadingTime |-> p[3], withCoverImage |-> p[4],
      withExcerpt |-> p[5], uniqueTags |-> p[6], totalReactions |-> r * p[1],
      totalComments |-> c * p[1], followers |-> f] :
        p \in BlogPosts, r \in {0, 4, 12}, c \in {0, 2, 7}, f \in {0, 35, 250}}

\* the input handed to the next calculateMetrics, kept in env
Argument(in) == [Void EXCEPT !.env = {in}]

calculateMetricsOp(op, metrics, in) ==
    /\ lastResult = Argument(in)
    /\ lastResult' = Returned(op, "", metrics, {in})
    /\ UNCHANGED <<platformDataTypes, notificationStore, runs>>
    /\ UNCHANGED <<user, recruiterProfile, isPublic, connectionSync, platformDataRows>>
    /\ UNCHANGED <<candidateProfile, platformConnection, platformData, candidateScore,
                   weights, clock, calls>>

calculateGitHubMetrics(in) ==
    calculateMetricsOp("GitHubConnector.calculateMetrics", GitHubCalculateMetrics(in), in)

calculateTwitterMetrics(in) ==
    calculateMetricsOp("TwitterConnector.calculateMetrics", TwitterCalculateMetrics(in), in)

calculateLinkedInMetrics(in) ==
    calculateMetricsOp("LinkedInConnector.calculateMetrics", LinkedInCalculateMetrics(in), in)

calculateBlogMetrics(in) ==
    calculateMetricsOp("BlogConnector.calculateMetrics", BlogCalculateMetrics(in), in)

InitCalc ==
    /\ candidateProfile = [u \in Users |-> IF u = "u1" THEN "c1" ELSE NoProfile]
    /\ platformConnection = [c \in CandidateIds |-> [p \in Platforms |-> NoConnection]]
    /\ platformData = [c \in CandidateIds |-> [p \in Platforms |-> NoData]]
    /\ candidateScore = <<>>
    /\ weights = DEFAULT_WEIGHTS
    /\ clock = 0
    /\ calls = [u \in Users |-> [n |-> 0, last |-> Null, recommendations |-> <<>>, toggles |-> 0]]
    /\ platformDataTypes = TypesOf(platformData)
    /\ notificationStore = [u \in Users |-> <<>>]
    /\ runs = [r \in RunIds |-> Idle]
    /\ user = UsersOf(candidateProfile)
    /\ recruiterProfile = {u \in DOMAIN candidateProfile : candidateProfile[u] = NoProfile}
    /\ isPublic = [c \in DOMAIN platformConnection |-> FALSE]
    /\ connectionSync = SyncOf(platformConnection, platformDataTypes)
    /\ platformDataRows = RowsFrom(platformData, platformDataTypes)
    /\ lastResult \in {Argument(in) :
                         in \in GitHubInputs \cup TwitterInputs \cup LinkedInInputs \cup BlogInputs}

NextCalc ==
    \/ \E in \in GitHubInputs : calculateGitHubMetrics(in)
    \/ \E in \in TwitterInputs : calculateTwitterMetrics(in)
    \/ \E in \in LinkedInInputs : calculateLinkedInMetrics(in)
    \/ \E in \in BlogInputs : calculateBlogMetrics(in)

SpecCalc == InitCalc /\ [][NextCalc]_vars

\* ------------------------------------------------------------------------
\* The calculators at the time of the call.  Times are whole months; the
\* dated input of GitHub holds pushedAt of every own repository, the dated
\* input of LinkedIn <<startDate, endDate>> of every experience, endDate Null
\* for a current one
\* ------------------------------------------------------------------------
\* the record r with its field old replaced by the field new
WithField(r, old, new, value) ==
    [f \in (DOMAIN r \ {old}) \cup {new} |-> IF f = new THEN value ELSE r[f]]

\* ownRepos.filter(r => new Date(r.pushedAt) > sixMonthsAgo).length
GitHubActiveRepos(pushedAt, now) ==
    Cardinality({i \in 1..Len(pushedAt) : pushedAt[i] > now - 6})

GitHubCalculateMetricsAt(in, now) ==
    GitHubCalculateMetrics(WithField(in, "pushedAt", "activeRepos",
                                     GitHubActiveRepos(in.pushedAt, now)))

\* (end.getFullYear() - start.getFullYear()) * 12 + (end.getMonth() - start.getMonth())
LinkedInMonths(experiences, now) ==
    [i \in 1..Len(experiences) |->
        (IF experiences[i][2] = Null THEN now ELSE experiences[i][2]) - experiences[i][1]]

LinkedInCalculateMetricsAt(in, now) ==
    LinkedInCalculateMetrics(WithField(in, "experiences", "months",
                                       LinkedInMonths(in.experiences, now)))

\* the times of a call
Times == {120, 121, 127}

GitHubPushedAt == {<<>>, <<119, 117>>, <<120, 119, 118>>, <<120, 119, 115, 114, 90>>}

GitHubDatedInputs ==
    {WithField(x[1], "activeRepos", "pushedAt", x[2]) :
        x \in {y \in {i \in GitHubInputs : i.totalReviews = 0 /\ i.totalIssues = 0}
                       \X GitHubPushedAt : Len(y[2]) = y[1].ownRepos}}

LinkedInDated ==
    {<<>>, <<<<100, 112>>>>, <<<<114, Null>>>>, <<<<60, 96>>, <<96, Null>>>>,
     <<<<20, 50>>, <<50, 80>>, <<80, 118>>>>}

LinkedInDatedInputs ==
    {WithField(x[1], "months", "experiences", x[2]) :
        x \in {y \in {i \in LinkedInInputs : i.certifications = 0 /\ i.education = 1}
                       \X LinkedInDated : Len(y[2]) = Len(y[1].months)}}

calculateGitHubMetricsAt(in, now) ==
    calculateMetricsOp("GitHubConnector.calculateMetrics", GitHubCalculateMetricsAt(in, now), in)

calculateLinkedInMetricsAt(in, now) ==
    calculateMetricsOp("LinkedInConnector.calculateMetrics",
                       LinkedInCalculateMetricsAt(in, now), in)

InitClock ==
    /\ candidateProfile = [u \in Users |-> IF u = "u1" THEN "c1" ELSE NoProfile]
    /\ platformConnection = [c \in CandidateIds |-> [p \in Platforms |-> NoConnection]]
    /\ platformData = [c \in CandidateIds |-> [p \in Platforms |-> NoData]]
    /\ candidateScore = <<>>
    /\ weights = DEFAULT_WEIGHTS
    /\ clock = 0
    /\ calls = [u \in Users |-> [n |-> 0, last |-> Null, recommendations |-> <<>>, toggles |-> 0]]
    /\ platformDataTypes = TypesOf(platformData)
    /\ notificationStore = [u \in Users |-> <<>>]
    /\ runs = [r \in RunIds |-> Idle]
    /\ user = UsersOf(candidateProfile)
    /\ recruiterProfile = {u \in DOMAIN candidateProfile : candidateProfile[u] = NoProfile}
    /\ isPublic = [c \in DOMAIN platformConnection |-> FALSE]
    /\ connectionSync = SyncOf(platformConnection, platformDataTypes)
    /\ platformDataRows = RowsFrom(platformData, platformDataTypes)
    /\ lastResult \in {Argument(in) :
                         in \in GitHubDatedInputs \cup LinkedInDatedInputs
                                \cup TwitterInputs \cup BlogInputs}

NextClock ==
    \/ \E in \in GitHubDatedInputs, now \in Times : calculateGitHubMetricsAt(in, now)
    \/ \E in \in LinkedInDatedInputs, now \in Times : calculateLinkedInMetricsAt(in, now)
    \/ \E in \in TwitterInputs : calculateTwitterMetrics(in)
    \/ \E in \in BlogInputs : calculateBlogMetrics(in)

SpecClock == InitClock /\ [][NextClock]_vars

\* ------------------------------------------------------------------------
\* The scoring function over caches that hold what the calculators return:
\* data sets with many, few and no recommendations
\* ------------------------------------------------------------------------
\* the part of a data set calculateCompositeScore reads
MetricsOf(m) == Metrics(m.overallScore, m.recommendations)

GitHubLow(in) ==
    /\ in.followers = 0 /\ ~in.bio /\ in.totalCommits = 0
    /\ in.totalPRs = 0 /\ in.totalReviews = 0 /\ in.totalIssues = 0

GitHubHigh(in) ==
    /\ in.followers = 20000 /\ in.bio /\ in.totalCommits = 40000
    /\ in.totalPRs = 1000 /\ in.totalReviews = 25 /\ in.totalIssues = 10

LinkedInLow(in) ==
    /\ in.education = 0 /\ in.skills = 0 /\ in.connections = 0
    /\ ~in.headline /\ ~in.bio /\ in.certifications = 0

LinkedInHigh(in) ==
    /\ in.education = 2 /\ in.skills = 12 /\ in.connections = 800
    /\ in.bio /\ in.certifications = 2

TwitterLow(in) == in.followers = 0 /\ in.listedCount = 0 /\ ~in.verified /\ ~in.bio

TwitterHigh(in) == in.followers = 20000 /\ in.listedCount = 500 /\ in.verified /\ in.bio

BlogLow(in) == in.followers = 0 /\ in.totalReactions = 0 /\ in.totalComments = 0

BlogHigh(in) ==
    in.followers = 250 /\ in.totalReactions = 12 * in.posts /\ in.totalComments = 7 * in.posts

RecsPool(p) ==
    CASE p = GITHUB ->
           {MetricsOf(GitHubCalculateMetrics(in)) :
              in \in {i \in GitHubInputs : \/ GitHubLow(i) /\ i.ownRepos \in {0, 2}
                                           \/ GitHubHigh(i) /\ i.ownRepos = 5}}
      [] p = LINKEDIN ->
           {MetricsOf(LinkedInCalculateMetrics(in)) :
              in \in {i \in LinkedInInputs : \/ LinkedInLow(i) /\ i.months = <<6>>
                                             \/ LinkedInHigh(i) /\ Len(i.months) \in {0, 3}}}
      [] p = TWITTER ->
           {MetricsOf(TwitterCalculateMetrics(in)) :
              in \in {i \in TwitterInputs : \/ TwitterLow(i) /\ i.originalTweets \in {0, 10}
                                            \/ TwitterHigh(i) /\ i.originalTweets = 20}}
      [] p = DEVTO ->
           {MetricsOf(BlogCalculateMetrics(in)) :
              in \in {i \in BlogInputs : \/ BlogLow(i) /\ i.posts = 1
                                         \/ BlogHigh(i) /\ i.posts = 25}}
      [] p = HASHNODE ->
           {MetricsOf(BlogCalculateMetrics(in)) :
              in \in {i \in BlogInputs : \/ BlogLow(i) /\ i.posts = 3
                                         \/ BlogHigh(i) /\ i.posts = 8}}
      [] p = MEDIUM ->
           {MetricsOf(BlogCalculateMetrics(in)) :
              in \in {i \in BlogInputs : BlogLow(i) /\ i.posts = 0}}

RECURSIVE RecsCaches(_)
RecsCaches(ps) ==
    IF ps = {} THEN {[p \in Platforms |-> NoData]}
    ELSE LET p == CHOOSE x \in ps : TRUE
         IN  {[c EXCEPT ![p] = d] : c \in RecsCaches(ps \ {p}), d \in RecsPool(p) \cup {NoData}}

InitRecs ==
    /\ candidateProfile = [u \in Users |-> IF u = "u1" THEN "c1" ELSE NoProfile]
    /\ platformConnection = [c \in CandidateIds |-> [p \in Platforms |-> "alice"]]
    /\ platformData \in {[c \in CandidateIds |-> d] : d \in RecsCaches(Platforms)}
    /\ candidateScore = <<>>
    /\ weights = DEFAULT_WEIGHTS
    /\ clock = 0
    /\ calls = [u \in Users |-> [n |-> 0, last |-> Null, recommendations |-> <<>>, toggles |-> 0]]
    /\ platformDataTypes = TypesOf(platformData)
    /\ notificationStore = [u \in Users |-> <<>>]
    /\ runs = [r \in RunIds |-> Idle]
    /\ user = UsersOf(candidateProfile)
    /\ recruiterProfile = {u \in DOMAIN candidateProfile : candidateProfile[u] = NoProfile}
    /\ isPublic = [c \in DOMAIN platformConnection |-> FALSE]
    /\ connectionSync = SyncOf(platformConnection, platformDataTypes)
    /\ platformDataRows = RowsFrom(platformData, platformDataTypes)
    /\ lastResult = Void

NextRecs == calculateAndStoreScore("u1")

SpecRecs == InitRecs /\ [][NextRecs]_vars

\* ------------------------------------------------------------------------
\* Score change notifications: the candidate has connected LinkedIn, enters
\* manual data that LinkedInCalculator scored, and every data change is
\* followed up by onPlatformDataChanged or by a scoring run whose result is
\* handed to notifyScoreUpdate
\* ------------------------------------------------------------------------
InitNotify ==
    /\ candidateProfile = [u \in Users |-> IF u = "u1" THEN "c1" ELSE NoProfile]
    /\ platformConnection =
           [c \in CandidateIds |-> [p \in Platforms |-> IF p = LINKEDIN THEN "alice"
                                                        ELSE NoConnection]]
    /\ platformData = [c \in CandidateIds |-> [p \in Platforms |-> NoData]]
    /\ candidateScore = <<>>
    /\ weights = DEFAULT_WEIGHTS
    /\ clock = 0
    /\ calls = [u \in Users |-> [n |-> 0, last |-> Null, recommendations |-> <<>>, toggles |-> 0]]
    /\ platformDataTypes = TypesOf(platformData)
    /\ notificationStore = [u \in Users |-> <<>>]
    /\ runs = [r \in RunIds |-> Idle]
    /\ user = UsersOf(candidateProfile)
    /\ recruiterProfile = {u \in DOMAIN candidateProfile : candidateProfile[u] = NoProfile}
    /\ isPublic = [c \in DOMAIN platformConnection |-> FALSE]
    /\ connectionSync = SyncOf(platformConnection, platformDataTypes)
    /\ platformDataRows = RowsFrom(platformData, platformDataTypes)
    /\ lastResult = Void

NextNotify ==
    \/ \E c \in CandidateIds, d \in RecsPool(LINKEDIN) : storeManualData(c, d)
    \/ \E u \in Users : calculateAndStoreScore(u)
    \/ \E u \in Users : notifyScoreUpdate(u)
    \/ \E u \in Users : onPlatformDataChanged(u, LINKEDIN)

SpecNotify == InitNotify /\ [][NextNotify]_vars

\* ------------------------------------------------------------------------
\* aggregateProfile over every cache a store can leave behind: a store writes
\* its rows one after the other and no row is ever deleted, so a platform
\* holds the first k rows of StoredTypes; a platform can hold rows without a
\* connection (its connection was removed)
\* ------------------------------------------------------------------------
Prefixes(p) ==
    {{StoredTypes(p)[i] : i \in 1..k} : k \in 0..Len(StoredTypes(p))}

RECURSIVE CacheRows(_)
CacheRows(ps) ==
    IF ps = {} THEN {[p \in Platforms |-> {}]}
    ELSE LET p == CHOOSE x \in ps : TRUE
         IN  {[c EXCEPT ![p] = t] : c \in CacheRows(ps \ {p}), t \in Prefixes(p)}

\* the data set whose rows are stored
DataOfRows(p) == CHOOSE d \in (IF p = LINKEDIN THEN ManualPool ELSE FetchPool(p)) : TRUE

InitCache ==
    /\ candidateProfile = [u \in Users |-> IF u = "u1" THEN "c1" ELSE NoProfile]
    /\ platformConnection \in
           {[c \in CandidateIds |-> [p \in Platforms |-> IF p \in ps THEN "alice"
                                                        ELSE NoConnection]] :
                ps \in SUBSET InputPlatforms}
    /\ platformDataTypes \in {[c \in CandidateIds |-> t] : t \in CacheRows(InputPlatforms)}
    /\ platformData = [c \in CandidateIds |->
                          [p \in Platforms |-> IF platformDataTypes[c][p] = {} THEN NoData
                                               ELSE DataOfRows(p)]]
    /\ candidateScore = <<>>
    /\ weights = DEFAULT_WEIGHTS
    /\ clock = 0
    /\ calls = [u \in Users |-> [n |-> 0, last |-> Null, recommendations |-> <<>>, toggles |-> 0]]
    /\ notificationStore = [u \in Users |-> <<>>]
    /\ runs = [r \in RunIds |-> Idle]
    /\ user = UsersOf(candidateProfile)
    /\ recruiterProfile = {u \in DOMAIN candidateProfile : candidateProfile[u] = NoProfile}
    /\ isPublic = [c \in DOMAIN platformConnection |-> FALSE]
    /\ connectionSync = SyncOf(platformConnection, platformDataTypes)
    /\ platformDataRows = RowsFrom(platformData, platformDataTypes)
    /\ lastResult = Void

NextCache == \E u \in Users, throws \in SUBSET InputPlatforms : aggregateProfileWith(u, throws)

SpecCache == InitCache /\ [][NextCache]_vars

\* ------------------------------------------------------------------------
\* Two calls of calculateAndStoreScore for one candidate in flight together
\* while the candidate's GitHub cache is refreshed; calls that no other call
\* overlaps come before and after
\* ------------------------------------------------------------------------
InitConc ==
    /\ candidateProfile = [u \in Users |-> IF u = "u1" THEN "c1" ELSE NoProfile]
    /\ platformConnection =
           [c \in CandidateIds |-> [p \in Platforms |-> IF p = GITHUB THEN "alice"
                                                        ELSE NoConnection]]
    /\ platformData = [c \in CandidateIds |-> [p \in Platforms |-> NoData]]
    /\ candidateScore = <<>>
    /\ weights = DEFAULT_WEIGHTS
    /\ clock = 0
    /\ calls = [u \in Users |-> [n |-> 0, last |-> Null, recommendations |-> <<>>, toggles |-> 0]]
    /\ platformDataTypes = TypesOf(platformData)
    /\ notificationStore = [u \in Users |-> <<>>]
    /\ runs = [r \in RunIds |-> Idle]
    /\ user = UsersOf(candidateProfile)
    /\ recruiterProfile = {u \in DOMAIN candidateProfile : candidateProfile[u] = NoProfile}
    /\ isPublic = [c \in DOMAIN platformConnection |-> FALSE]
    /\ connectionSync = SyncOf(platformConnection, platformDataTypes)
    /\ platformDataRows = RowsFrom(platformData, platformDataTypes)
    /\ lastResult = Void

NextConc ==
    \/ \E r \in RunIds, u \in Users : RunFindUnique(r, u)
    \/ \E r \in RunIds : RunFindFirst(r)
    \/ \E r \in RunIds : RunAggregateProfile(r)
    \/ \E r \in RunIds : RunUpsert(r)
    \/ \E u \in Users : calculateAndStoreScoreAlone(u)
    \/ \E u \in Users : refreshAllPlatformData(u)

SpecConc == InitConc /\ [][NextConc]_vars

\* ------------------------------------------------------------------------
\* Two candidates side by side, one with a GitHub and one with a DEV.to
\* connection: one scoring call each step by step, refreshes of the cache and
\* score change notifications for either candidate; u1 is also scored again
\* by calls that nothing overlaps, so that u1's score changes
\* ------------------------------------------------------------------------
FrameCandidateIds == {"c1", "c2"}

InitFrame ==
    /\ candidateProfile = [u \in Users |-> IF u = "u1" THEN "c1" ELSE "c2"]
    /\ platformConnection =
           [c \in FrameCandidateIds |->
               [p \in Platforms |-> IF (c = "c1" /\ p = GITHUB) \/ (c = "c2" /\ p = DEVTO)
                                    THEN "alice" ELSE NoConnection]]
    /\ platformData = [c \in FrameCandidateIds |-> [p \in Platforms |-> NoData]]
    /\ candidateScore = <<>>
    /\ weights = DEFAULT_WEIGHTS
    /\ clock = 0
    /\ calls = [u \in Users |-> [n |-> 0, last |-> Null, recommendations |-> <<>>, toggles |-> 0]]
    /\ platformDataTypes = TypesOf(platformData)
    /\ notificationStore = [u \in Users |-> <<>>]
    /\ runs = [r \in RunIds |-> Idle]
    /\ user = UsersOf(candidateProfile)
    /\ recruiterProfile = {u \in DOMAIN candidateProfile : candidateProfile[u] = NoProfile}
    /\ isPublic = [c \in DOMAIN platformConnection |-> FALSE]
    /\ connectionSync = SyncOf(platformConnection, platformDataTypes)
    /\ platformDataRows = RowsFrom(platformData, platformDataTypes)
    /\ lastResult = Void

NextFrame ==
    \/ \E u \in Users : RunFindUnique(IF u = "u1" THEN "r1" ELSE "r2", u)
    \/ \E r \in RunIds : RunFindFirst(r)
    \/ \E r \in RunIds : RunAggregateProfile(r)
    \/ \E r \in RunIds : RunUpsert(r)
    \/ calculateAndStoreScoreAlone("u1")
    \/ \E u \in Users : refreshAllPlatformData(u)
    \/ \E u \in Users : notifyScoreUpdate(u)

SpecFrame == InitFrame /\ [][NextFrame]_vars

\* ------------------------------------------------------------------------
\* Registration and profile visibility: nobody is registered at first;
\* registrations of candidates and recruiters overlap, with the same and with
\* different emails, and the candidates toggle the visibility of their profile
\* ------------------------------------------------------------------------
Emails == {"a@example.com", "b@example.com"}

InitAuth ==
    /\ candidateProfile = [u \in Users |-> NoProfile]
    /\ platformConnection = [c \in FrameCandidateIds |-> [p \in Platforms |-> NoConnection]]
    /\ platformData = [c \in FrameCandidateIds |-> [p \in Platforms |-> NoData]]
    /\ candidateScore = <<>>
    /\ weights = DEFAULT_WEIGHTS
    /\ clock = 0
    /\ calls = [u \in Users |-> [n |-> 0, last |-> Null, recommendations |-> <<>>, toggles |-> 0]]
    /\ platformDataTypes = TypesOf(platformData)
    /\ notificationStore = [u \in Users |-> <<>>]
    /\ runs = [r \in RunIds |-> Idle]
    /\ user = {}
    /\ recruiterProfile = {}
    /\ isPublic = [c \in FrameCandidateIds |-> FALSE]
    /\ connectionSync = SyncOf(platformConnection, platformDataTypes)
    /\ platformDataRows = RowsFrom(platformData, platformDataTypes)
    /\ lastResult = Void

NextAuth ==
    \/ \E r \in RunIds, email \in Emails, ps \in {{}, {GITHUB}} : registerCandidate(r, email, ps)
    \/ \E r \in RunIds, email \in Emails : registerRecruiter(r, email)
    \/ \E r \in RunIds : RegisterTransaction(r)
    \/ \E u \in Users : toggleProfileVisibility(u)

SpecAuth == InitAuth /\ [][NextAuth]_vars

\* ------------------------------------------------------------------------
\* Refreshes and cached reads of one candidate's GitHub data row by row: the
\* cache is empty or holds one complete data set, two refreshes can be in
\* flight together
\* ------------------------------------------------------------------------
InitRows ==
    /\ candidateProfile = [u \in Users |-> IF u = "u1" THEN "c1" ELSE NoProfile]
    /\ platformConnection =
           [c \in CandidateIds |-> [p \in Platforms |-> IF p = GITHUB THEN "alice"
                                                        ELSE NoConnection]]
    /\ platformData \in
           {[c \in CandidateIds |-> [p \in Platforms |-> IF p = GITHUB THEN d ELSE NoData]] :
               d \in FetchPool(GITHUB) \cup {NoData}}
    /\ candidateScore = <<>>
    /\ weights = DEFAULT_WEIGHTS
    /\ clock = 0
    /\ calls = [u \in Users |-> [n |-> 0, last |-> Null, recommendations |-> <<>>, toggles |-> 0]]
    /\ platformDataTypes = TypesOf(platformData)
    /\ notificationStore = [u \in Users |-> <<>>]
    /\ runs = [r \in RunIds |-> Idle]
    /\ user = UsersOf(candidateProfile)
    /\ recruiterProfile = {u \in DOMAIN candidateProfile : candidateProfile[u] = NoProfile}
    /\ isPublic = [c \in DOMAIN platformConnection |-> FALSE]
    /\ connectionSync = SyncOf(platformConnection, platformDataTypes)
    /\ platformDataRows = RowsFrom(platformData, platformDataTypes)
    /\ lastResult = Void

NextRows ==
    \/ \E r \in RunIds, d \in FetchPool(GITHUB) : FetchAllData(r, "c1", GITHUB, d)
    \/ \E r \in RunIds : StoreFindFirst(r)
    \/ \E r \in RunIds : StorePlatformData(r)
    \/ \E r \in RunIds : FetchUpdateMany(r)
    \/ getCachedDataOfRows("c1", GITHUB)

SpecRows == InitRows /\ [][NextRows]_vars

\* ------------------------------------------------------------------------
\* Connections that change and go stale: the candidate has no connection, or
\* a GitHub connection whose data was fetched at the start of the run or two
\* days before; platforms are connected, usernames changed, LinkedIn data
\* entered, and the periodic update runs between scoring and aggregation
\* ------------------------------------------------------------------------
SyncUsernames == {"alice", "bob"}

SyncPlatforms == {GITHUB, LINKEDIN}

\* when the data of the initial state was fetched
SyncTimes == {0, 0 - 2 * DayMs}

InitSync ==
    /\ candidateProfile = [u \in Users |-> IF u = "u1" THEN "c1" ELSE NoProfile]
    /\ platformConnection \in
           {[c \in CandidateIds |-> [p \in Platforms |-> IF p \in ps THEN "alice"
                                                        ELSE NoConnection]] :
                ps \in {{}, {GITHUB}}}
    /\ platformData =
           [c \in CandidateIds |->
               [p \in Platforms |-> IF platformConnection[c][p] # NoConnection
                                    THEN CHOOSE d \in FetchPool(p) : TRUE
                                    ELSE NoData]]
    /\ candidateScore = <<>>
    /\ weights = DEFAULT_WEIGHTS
    /\ clock = 0
    /\ calls = [u \in Users |-> [n |-> 0, last |-> Null, recommendations |-> <<>>, toggles |-> 0]]
    /\ platformDataTypes = TypesOf(platformData)
    /\ notificationStore = [u \in Users |-> <<>>]
    /\ runs = [r \in RunIds |-> Idle]
    /\ user = UsersOf(candidateProfile)
    /\ recruiterProfile = {u \in DOMAIN candidateProfile : candidateProfile[u] = NoProfile}
    /\ isPublic = [c \in DOMAIN platformConnection |-> FALSE]
    /\ connectionSync \in
           {[c \in CandidateIds |->
                [p \in Platforms |-> IF platformConnection[c][p] # NoConnection
                                     THEN [isVerified |-> TRUE, lastSynced |-> DayOf(t)]
                                     ELSE NeverSynced]] : t \in SyncTimes}
    /\ platformDataRows = RowsFrom(platformData, platformDataTypes)
    /\ lastResult = Void

NextSync ==
    \/ \E u \in Users, p \in SyncPlatforms, n \in SyncUsernames :
          /\ HasProfile(u) => platformConnection[candidateProfile[u]][p] # n
          /\ upsertPlatformConnection(u, p, n)
    \/ \E c \in CandidateIds, d \in ManualPool : storeManualData(c, d)
    \/ \E u \in Users : schedulePeriodicUpdate(u)
    \/ \E u \in Users : aggregateProfile(u)
    \/ \E u \in Users : calculateAndStoreScore(u)

SpecSync == InitSync /\ [][NextSync]_vars

\* ------------------------------------------------------------------------
\* The notification lists under the calls of their users: u1 starts with no
\* notification, with a few, with one less than the limit or with a full
\* list, created one per ms before the run; notifications are addressed by
\* an unknown id, the id of the newest and the id of the oldest
\* ------------------------------------------------------------------------
InboxLengths == {0, 2, StoreLimit - 1, StoreLimit}

InboxData == [recommendations |-> <<"Add a bio to your GitHub profile">>]

\* n notifications of u, the newest first
Inbox(u, n) == [i \in 1..n |-> Notification(u, NEW_RECOMMENDATION, InboxData, 0 - i)]

\* the ids a caller passes for the list of u
InboxIds(u) == {0, 1, Len(notificationStore[u])}

InitInbox ==
    /\ candidateProfile = [u \in Users |-> IF u = "u1" THEN "c1" ELSE NoProfile]
    /\ platformConnection = [c \in CandidateIds |-> [p \in Platforms |-> NoConnection]]
    /\ platformData = [c \in CandidateIds |-> [p \in Platforms |-> NoData]]
    /\ candidateScore = <<>>
    /\ weights = DEFAULT_WEIGHTS
    /\ clock = 0
    /\ calls = [u \in Users |-> [n |-> 0, last |-> Null, recommendations |-> <<>>, toggles |-> 0]]
    /\ platformDataTypes = TypesOf(platformData)
    /\ notificationStore \in
           {[u \in Users |-> IF u = "u1" THEN Inbox(u, n) ELSE <<>>] : n \in InboxLengths}
    /\ runs = [r \in RunIds |-> Idle]
    /\ user = UsersOf(candidateProfile)
    /\ recruiterProfile = {u \in DOMAIN candidateProfile : candidateProfile[u] = NoProfile}
    /\ isPublic = [c \in DOMAIN platformConnection |-> FALSE]
    /\ connectionSync = SyncOf(platformConnection, platformDataTypes)
    /\ platformDataRows = RowsFrom(platformData, platformDataTypes)
    /\ lastResult = Void

NextInbox ==
    \/ \E u \in Users : createNotification(u, NEW_RECOMMENDATION, InboxData)
    \/ \E u \in Users : \E i \in InboxIds(u) : markAsRead(u, i)
    \/ \E u \in Users : markAllAsRead(u)
    \/ \E u \in Users : \E i \in InboxIds(u) : deleteNotification(u, i)
    \/ \E u \in Users : clearAllNotifications(u)

SpecInbox == InitInbox /\ [][NextInbox]_vars

\* ------------------------------------------------------------------------
\* Properties
\* ------------------------------------------------------------------------
RECURSIVE SumFn(_, _)
SumFn(f, S) ==
    IF S = {} THEN 0
    ELSE LET x == CHOOSE y \in S : TRUE IN f[x] + SumFn(f, S \ {x})

\* the last operation was a scoring run that returned
Scored == lastResult.op \in {"calculateAndStoreScore", "refreshAndRecalculate",
                             "onPlatformDataChanged"}
          /\ lastResult.error = ""

\* the profile that run scored (the cache has not changed since)
ScoredProfile == CachedProfile(lastResult.userId)

BlogProviders(profile) == {p \in {DEVTO, HASHNODE, MEDIUM} : Has(profile, p)}

FamilyHasData(profile, f) ==
    CASE f = "github" -> Has(profile, GITHUB)
      [] f = "linkedin" -> Has(profile, LINKEDIN)
      [] f = "twitter" -> Has(profile, TWITTER)
      [] f = "blog" -> BlogProviders(profile) # {}

\* the overall score s_f of a family that has data
FamilyScore(profile, f) ==
    CASE f = "github" -> profile.platforms[GITHUB].overallScore
      [] f = "linkedin" -> profile.platforms[LINKEDIN].overallScore
      [] f = "twitter" -> profile.platforms[TWITTER].overallScore
      [] f = "blog" ->
           Pt(MathRound(SumFn([p \in BlogProviders(profile) |-> profile.platforms[p].overallScore],
                              BlogProviders(profile)),
                        Cardinality(BlogProviders(profile)) * ScoreScale))

PresentFamilies(profile) == {f \in Families : FamilyHasData(profile, f)}

C2_AppendOnly ==
    /\ [](\A u \in Users :
            HasProfile(u) =>
                LET h == getScoreHistory(u, MaxCalls)
                IN  /\ Len(h) = calls[u].n
                    /\ \A i, j \in 1..Len(h) : i < j => h[i].calculatedAt > h[j].calculatedAt)
    /\ [][\A i \in 1..Len(candidateScore) : candidateScore'[i] = candidateScore[i]]_vars

\* a step that is a scoring run that returned
ScoringStep == clock' = clock + 1

\* C3: changed = (a previous snapshot exists and its overall differs from the
\* current one), changeAmount = current - previous, or current when there is
\* no previous snapshot; previous being the score of the run before
C3_ChangeDetection ==
    [][ScoringStep =>
          LET u == lastResult'.userId
              r == lastResult'.value
          IN  /\ r.changed = (calls[u].n > 0 /\ calls[u].last # r.current.overallScore)
              /\ r.changeAmount = IF calls[u].n > 0
                                  THEN r.current.overallScore - calls[u].last
                                  ELSE r.current.overallScore]_vars

\* the third run of 50, 50, 70: changed, by 20
C3_Witness ==
    /\ Scored
    /\ calls[lastResult.userId].n = 3
    /\ lastResult.value.previous.overallScore = Pt(50)
    /\ lastResult.value.current.overallScore = Pt(70)
    /\ lastResult.value.changed
    /\ lastResult.value.changeAmount = Pt(20)

IsScore(x) == x \in 0..Pt(100) /\ x % ScoreScale = 0

\* C4: for per-platform scores in [0,100] and non-negative weights the
\* overallScore is an integer in [0,100], it is 0 when no family has data,
\* and every stored snapshot satisfies the same bound
C4_ScoreBounds ==
    /\ \A i \in 1..Len(candidateScore) : IsScore(candidateScore[i].compositeScore)
    /\ Scored =>
          /\ IsScore(lastResult.value.current.overallScore)
          /\ PresentFamilies(ScoredProfile) = {} => lastResult.value.current.overallScore = 0

C4_Witness ==
    /\ Scored
    /\ PresentFamilies(ScoredProfile) = Families
    /\ ScoredProfile.platforms[TWITTER].overallScore % ScoreScale # 0
    /\ Len(candidateScore) = 1
    /\ candidateScore[1].compositeScore = lastResult.value.current.overallScore
    /\ IsScore(candidateScore[1].compositeScore)

\* C5: a profile in which exactly one family has data with score s yields
\* overallScore = round(s), whatever the weights are
C5_SingleFamily ==
    Scored =>
        \A f \in Families :
            PresentFamilies(ScoredProfile) = {f} =>
                lastResult.value.current.overallScore =
                    Pt(MathRound(FamilyScore(ScoredProfile, f), ScoreScale))

FamilyOf(p) ==
    CASE p = GITHUB -> "github" [] p = LINKEDIN -> "linkedin"
      [] p = TWITTER -> "twitter" [] OTHER -> "blog"

SubScore(score, f) ==
    CASE f = "github" -> score.githubScore [] f = "linkedin" -> score.linkedinScore
      [] f = "twitter" -> score.socialScore [] f = "blog" -> score.blogScore

\* C6: a platform whose fetch failed during refreshAndRecalculate is missing
\* in the score computed and stored: it is not among the scored platforms and,
\* when no other platform of its family has data, the family's sub-score is
\* null and the family is listed as missing
C6_FailedFetchIsMissing ==
    (lastResult.op = "refreshAndRecalculate" /\ lastResult.error = "") =>
        LET cid == candidateProfile[lastResult.userId]
            cur == lastResult.value.current
        IN  \A p \in Fetchable(cid) \ lastResult.env :
                /\ ~Contains(cur.breakdown.platformsConnected, PlatformKey(p))
                /\ (\A q \in Fetchable(cid) : FamilyOf(q) = FamilyOf(p) => q \notin lastResult.env)
                      => /\ SubScore(cur, FamilyOf(p)) = Null
                         /\ Contains(cur.breakdown.platformsMissing, FamilyOf(p))

\* C7: refreshAllPlatformData completes when fetches throw; every platform
\* whose fetch returns is stored, and the returned profile holds exactly the
\* platforms whose fetch returned (for LinkedIn, whose cached manual data was read)
C7_RefreshIsolatesFailures ==
    (lastResult.op = "refreshAllPlatformData" /\ HasProfile(lastResult.userId)) =>
        LET cid == candidateProfile[lastResult.userId]
            profile == lastResult.value
        IN  /\ lastResult.error = ""
            /\ \A p \in lastResult.env :
                  /\ platformData[cid][p] # NoData
                  /\ platformData[cid][p] = profile.platforms[p]
            /\ \A p \in Platforms :
                  Has(profile, p) <=>
                      \/ p \in lastResult.env
                      \/ /\ p = LINKEDIN
                         /\ p \in Connected(cid)
                         /\ platformData[cid][LINKEDIN] # NoData

\* one fetch threw, another returned and was stored, LinkedIn was read
C7_Witness ==
    /\ lastResult.op = "refreshAllPlatformData"
    /\ lastResult.error = ""
    /\ Connected(candidateProfile[lastResult.userId]) = {GITHUB, LINKEDIN, DEVTO}
    /\ lastResult.env = {DEVTO}
    /\ Has(lastResult.value, DEVTO)
    /\ Has(lastResult.value, LINKEDIN)
    /\ ~Has(lastResult.value, GITHUB)
    /\ platformData[candidateProfile[lastResult.userId]][DEVTO] = lastResult.value.platforms[DEVTO]

\* C8: for a user without candidate profile calculateAndStoreScore,
\* aggregateProfile and refreshAllPlatformData fail with 'Candidate profile
\* not found' and leave the snapshots and the cache unchanged
C8_NotFound ==
    [][(/\ lastResult'.op \in {"calculateAndStoreScore", "aggregateProfile",
                               "refreshAllPlatformData"}
        /\ ~HasProfile(lastResult'.userId))
          => /\ lastResult'.error = "Candidate profile not found"
             /\ candidateScore' = candidateScore
             /\ platformData' = platformData]_vars

\* the three operations have failed for the user without profile, over stored
\* snapshots and cached data
C8_Witness ==
    /\ lastResult.op = "aggregateProfile"
    /\ ~HasProfile(lastResult.userId)
    /\ lastResult.error = "Candidate profile not found"
    /\ Len(candidateScore) > 0
    /\ \E c \in CandidateIds, p \in Platforms : platformData[c][p] # NoData

\* C9: getCurrentScore returns the score stored by the latest scoring run
C9_CurrentIsLatestSnapshot ==
    \A u \in Users :
        calls[u].n > 0 =>
            /\ getCurrentScore(u) # NoScore
            /\ getCurrentScore(u).overallScore = calls[u].last
            /\ \E i \in LatestScores(candidateProfile[u]) :
                  getCurrentScore(u).overallScore = candidateScore[i].compositeScore

\* C10: setWeights merges the partial weights into the configuration, and
\* every stored snapshot is returned by getScoreHistory as before the call,
\* with its overall score and the weights it was computed with
C10_SetWeightsNotRetroactive ==
    [][weights' # weights =>
          /\ \E patch \in WeightPatches :
                \A f \in Families :
                    weights'[f] = IF f \in DOMAIN patch THEN patch[f] ELSE weights[f]
          /\ \A u \in Users :
                getScoreHistory(u, MaxCalls)' = getScoreHistory(u, MaxCalls)]_vars

\* C14: for a candidate with no platform data at all the score is produced,
\* overallScore = 0, and the recommendations are exactly the one entry
\* 'Connect more platforms: github, linkedin, twitter, blog'
C14_NoDataScore ==
    (lastResult.op = "calculateAndStoreScore" /\ HasProfile(lastResult.userId)) =>
        /\ lastResult.error = ""
        /\ (\A p \in Platforms : ~Has(ScoredProfile, p)) =>
              /\ lastResult.value.current.overallScore = 0
              /\ lastResult.value.current.recommendations =
                    <<"Connect more platforms: github, linkedin, twitter, blog">>

C14_Witness ==
    /\ Scored
    /\ \A p \in Platforms : ~Has(ScoredProfile, p)
    /\ Len(lastResult.value.current.recommendations) = 1
    /\ Len(candidateScore) = 1

\* the sum of the overall scores of the blog providers that have data
BlogSum(profile) ==
    SumFn([p \in BlogProviders(profile) |-> profile.platforms[p].overallScore],
          BlogProviders(profile))

\* C19 as stated: with N blog providers having data the blog family score
\* is the arithmetic mean of their N overall scores
C19_BlogIsMean ==
    (Scored /\ BlogProviders(ScoredProfile) # {}) =>
        lastResult.value.current.blogScore * Cardinality(BlogProviders(ScoredProfile))
            = BlogSum(ScoredProfile)

\* C19 amended: the blog family score is the whole number of points nearest
\* to the arithmetic mean of the N overall scores, a half rounding up; it is
\* null when no blog provider has data
C19_BlogIsRoundedMean ==
    Scored =>
        LET n == Cardinality(BlogProviders(ScoredProfile))
            b == lastResult.value.current.blogScore
        IN  IF n = 0 THEN b = Null
            ELSE /\ b % ScoreScale = 0
                 /\ 2 * (n * b - BlogSum(ScoredProfile)) <= n * ScoreScale
                 /\ 2 * (BlogSum(ScoredProfile) - n * b) < n * ScoreScale

\* devto 40 and hashnode 75: mean 57.5, blog score 58
C19_Witness ==
    /\ Scored
    /\ BlogProviders(ScoredProfile) = {DEVTO, HASHNODE}
    /\ ScoredProfile.platforms[DEVTO].overallScore = Pt(40)
    /\ ScoredProfile.platforms[HASHNODE].overallScore = Pt(75)
    /\ lastResult.value.current.blogScore = Pt(58)

\* the last operation was a calculateMetrics
Calculated ==
    lastResult.op \in {"GitHubConnector.calculateMetrics", "TwitterConnector.calculateMetrics",
                       "LinkedInConnector.calculateMetrics", "BlogConnector.calculateMetrics"}

\* C20: every sub-dimension score and the overallScore returned by each of
\* the four calculateMetrics lie in [0,100], on the empty-activity branches too
C20_MetricsBounds ==
    Calculated =>
        \A f \in DOMAIN lastResult.value \ {"recommendations"} :
            lastResult.value[f] \in 0..Pt(100)

\* no original tweet and 20000 followers: both follower scores are at their cap
C20_Witness ==
    /\ lastResult.op = "TwitterConnector.calculateMetrics"
    /\ \E in \in lastResult.env : in.originalTweets = 0 /\ in.followers = 20000
    /\ lastResult.value.influenceScore = Pt(100)
    /\ lastResult.value.overallScore = Pt(25)

\* C15: the recommendations of a CompositeScore are at most 10 and hold no
\* string twice
C15_RecommendationsBounded ==
    Scored =>
        LET recs == lastResult.value.current.recommendations
        IN  /\ Len(recs) <= 10
            /\ \A i, j \in 1..Len(recs) : i # j => recs[i] # recs[j]

\* eleven or more entries were collected, some of them twice, and ten are returned
C15_Witness ==
    /\ Scored
    /\ Len(AllRecommendations(ScoredProfile)) > 10
    /\ \E i, j \in 1..Len(AllRecommendations(ScoredProfile)) :
          i # j /\ AllRecommendations(ScoredProfile)[i] = AllRecommendations(ScoredProfile)[j]
    /\ Len(lastResult.value.current.recommendations) = 10

\* the recommendation lists of github, linkedin, twitter and the blog providers, in this order
FamilyRecommendations(profile) ==
    profile.platforms[GITHUB].recommendations \o profile.platforms[LINKEDIN].recommendations
    \o profile.platforms[TWITTER].recommendations \o profile.platforms[DEVTO].recommendations
    \o profile.platforms[HASHNODE].recommendations \o profile.platforms[MEDIUM].recommendations

\* the entry that names the families without data, if there is one
ConnectMore(profile) ==
    LET missing == SelectSeq(<<"github", "linkedin", "twitter", "blog">>,
                             LAMBDA f : f \notin PresentFamilies(profile))
    IN  IF missing = <<>> THEN <<>>
        ELSE <<"Connect more platforms: " \o Join(missing, ", ")>>

\* the first n distinct strings of s, after those of acc
RECURSIVE FirstDistinct(_, _, _)
FirstDistinct(s, acc, n) ==
    IF s = <<>> \/ Len(acc) = n THEN acc
    ELSE FirstDistinct(Tail(s),
                       IF Contains(acc, Head(s)) THEN acc ELSE Append(acc, Head(s)),
                       n)

\* C16: the recommendations are the first 10 distinct strings of the family
\* lists in the order github, linkedin, twitter, blog providers, followed by
\* the 'Connect more platforms' entry, which is kept only if fewer than 10
\* distinct family recommendations exist
C16_RecommendationsOrder ==
    Scored =>
        LET recs == lastResult.value.current.recommendations
            fam == FamilyRecommendations(ScoredProfile)
            more == ConnectMore(ScoredProfile)
        IN  /\ recs = FirstDistinct(fam \o more, <<>>, 10)
            /\ \A i \in 1..Len(more) :
                  Contains(recs, more[i]) =>
                      Cardinality({fam[k] : k \in 1..Len(fam)}) < 10

\* github gives 7 and linkedin 7 recommendations, twitter has no data: the
\* ten are github's and the first three of linkedin, 'connect more' is dropped
C16_Witness ==
    /\ Scored
    /\ Len(ScoredProfile.platforms[GITHUB].recommendations) = 7
    /\ Len(ScoredProfile.platforms[LINKEDIN].recommendations) = 7
    /\ ~Has(ScoredProfile, TWITTER)
    /\ Len(lastResult.value.current.recommendations) = 10
    /\ lastResult.value.current.recommendations[7] = "Add a bio to your GitHub profile"
    /\ lastResult.value.current.recommendations[10] = "Add more skills to your profile"
    /\ ~Contains(lastResult.value.current.recommendations, ConnectMore(ScoredProfile)[1])

\* the notifications a step put on top of u's list
Added(u) ==
    SubSeq(notificationStore'[u], 1, Len(notificationStore'[u]) - Len(notificationStore[u]))

\* C18: notifyScoreUpdate creates a score-change notification iff the score
\* result has changed = true; the type is SCORE_IMPROVEMENT when changeAmount
\* is positive and SCORE_DECLINE when it is negative; when changed is false
\* (first score included) it returns null and leaves the store as it was
C18_NotifyIffChanged ==
    [][lastResult'.op = "notifyScoreUpdate" =>
         LET u == lastResult'.userId
             r == lastResult.value
         IN  IF r.changed
             THEN /\ notificationStore' =
                         [notificationStore EXCEPT ![u] = <<lastResult'.value>> \o @]
                  /\ lastResult'.value.userId = u
                  /\ lastResult'.value.type \in {SCORE_IMPROVEMENT, SCORE_DECLINE}
                  /\ r.changeAmount > 0 => lastResult'.value.type = SCORE_IMPROVEMENT
                  /\ r.changeAmount < 0 => lastResult'.value.type = SCORE_DECLINE
             ELSE /\ lastResult'.value = NoValue
                  /\ notificationStore' = notificationStore]_vars

\* a decline has been notified after an improvement and after a first score
\* that was not notified
C18_Witness ==
    /\ lastResult.op = "notifyScoreUpdate"
    /\ lastResult.value # NoValue
    /\ lastResult.value.type = SCORE_DECLINE
    /\ lastResult.value.data.changeAmount < 0
    /\ \E i \in 1..Len(notificationStore["u1"]) :
           notificationStore["u1"][i].type = SCORE_IMPROVEMENT
    /\ Len(notificationStore["u1"]) < calls["u1"].n

\* C17: onPlatformDataChanged emits one new-recommendations notification
\* holding exactly the current recommendations that were not among the
\* recommendations of the previous score, and none when there is no such
\* recommendation (so none on a second run over unchanged data)
C17_OnlyNewRecommendations ==
    [][(lastResult'.op = "onPlatformDataChanged" /\ lastResult'.error = "") =>
         LET u == lastResult'.userId
             previous == calls[u].recommendations
             new == SelectSeq(lastResult'.value.current.recommendations,
                              LAMBDA x : ~Contains(previous, x))
             emitted == SelectSeq(Added(u), LAMBDA n : n.type = NEW_RECOMMENDATION)
         IN  IF new = <<>> THEN emitted = <<>>
             ELSE /\ Len(emitted) = 1
                  /\ emitted[1].data.recommendations = new]_vars

\* C13: aggregateProfile for an existing candidate never fails on a platform
\* problem; its result holds platform P iff P is connected, every row of P's
\* data set is cached and the cached read did not throw; the other platforms
\* are not affected, and nothing is fetched or stored
C13_AggregateSkipsPlatforms ==
    [][(lastResult'.op = "aggregateProfile" /\ HasProfile(lastResult'.userId)) =>
         LET cid == candidateProfile[lastResult'.userId]
             throws == lastResult'.env
         IN  /\ lastResult'.error = ""
             /\ \A p \in Platforms :
                    /\ Has(lastResult'.value, p) <=>
                           /\ platformConnection[cid][p] # NoConnection
                           /\ platformDataTypes[cid][p] = AllTypes(p)
                           /\ p \notin throws
                    /\ Has(lastResult'.value, p) =>
                           lastResult'.value.platforms[p] = platformData[cid][p]
             /\ UNCHANGED <<platformData, platformDataTypes, platformConnection>>]_vars

\* LinkedIn is returned although the read of GitHub's complete cache threw
\* and DEV.to's cache holds only some of its rows
C13_Witness ==
    /\ lastResult.op = "aggregateProfile"
    /\ lastResult.error = ""
    /\ Connected("c1") = {GITHUB, LINKEDIN, DEVTO}
    /\ platformDataTypes["c1"][GITHUB] = AllTypes(GITHUB)
    /\ lastResult.env = {GITHUB}
    /\ platformDataTypes["c1"][DEVTO] = {"profile", "posts"}
    /\ ~Has(lastResult.value, GITHUB)
    /\ ~Has(lastResult.value, DEVTO)
    /\ Has(lastResult.value, LINKEDIN)

\* both calls have returned and both were for user u
BothReturned(u) == \A r \in RunIds : runs[r] = [pc |-> "returned", userId |-> u]

\* the latest snapshot of u and the first entry of u's history hold the score written last
LatestIsLastWritten(u) ==
    /\ LatestScores(candidateProfile[u]) # {}
    /\ \A i \in LatestScores(candidateProfile[u]) :
           candidateScore[i].compositeScore = calls[u].last
    /\ getScoreHistory(u, 10)[1].overallScore = calls[u].last

RowsOf(cid) == {candidateScore[i] : i \in ScoresOf(cid)}

\* the score a call would compute for u
ComputedScore(u) ==
    LET profile == CachedProfile(u)
    IN  OverallScore(ScoreOf(profile, GITHUB), ScoreOf(profile, LINKEDIN),
                     ScoreOf(profile, TWITTER), BlogScoreOf(profile), weights)

\* the user a step was taken for
Actor ==
    IF \E r \in RunIds : runs'[r] # runs[r]
    THEN runs'[CHOOSE r \in RunIds : runs'[r] # runs[r]].userId
    ELSE lastResult'.userId

\* C12: a step of calculateAndStoreScore, refreshAllPlatformData or
\* notifyScoreUpdate for one candidate leaves every other candidate's
\* snapshots, cached data, connections, notifications and calls in flight
\* unchanged, and the score computed for the other candidate is the same
\* after the step as before
C12_CandidatesIndependent ==
    [][\A b \in Users \ {Actor} :
         /\ RowsOf(candidateProfile[b])' = RowsOf(candidateProfile[b])
         /\ platformData'[candidateProfile[b]] = platformData[candidateProfile[b]]
         /\ platformDataTypes'[candidateProfile[b]] = platformDataTypes[candidateProfile[b]]
         /\ platformConnection'[candidateProfile[b]] = platformConnection[candidateProfile[b]]
         /\ notificationStore'[b] = notificationStore[b]
         /\ calls'[b] = calls[b]
         /\ \A r \in RunIds : runs[r] # Idle /\ runs[r].userId = b => runs'[r] = runs[r]
         /\ ComputedScore(b)' = ComputedScore(b)]_vars

\* a score change of u1 has been notified while a call for u2, who has
\* cached data of their own, has computed its score and waits to write
C12_Witness ==
    /\ lastResult.op = "notifyScoreUpdate"
    /\ lastResult.userId = "u1"
    /\ Len(notificationStore["u1"]) = 1
    /\ notificationStore["u2"] = <<>>
    /\ RowsOf("c1") # {}
    /\ runs["r2"].pc = "upsert"
    /\ runs["r2"].userId = "u2"
    /\ runs["r2"].current.overallScore > 0
    /\ platformData["c2"][DEVTO] # NoData

\* the calculateMetrics named op, applied to in
CalculateMetrics(op, in) ==
    CASE op = "GitHubConnector.calculateMetrics" -> GitHubCalculateMetrics(in)
      [] op = "TwitterConnector.calculateMetrics" -> TwitterCalculateMetrics(in)
      [] op = "LinkedInConnector.calculateMetrics" -> LinkedInCalculateMetrics(in)
      [] OTHER -> BlogCalculateMetrics(in)

\* the counts of stars, forks, followers, connections, likes and the like
\* that can grow while the list of repositories, tweets, experiences or
\* posts stays as it is
NumericInputs(op) ==
    CASE op = "GitHubConnector.calculateMetrics" ->
           {"totalStars", "totalForks", "followers", "totalCommits", "totalPRs",
            "totalReviews", "totalIssues"}
      [] op = "TwitterConnector.calculateMetrics" ->
           {"totalLikes", "totalRetweets", "followers", "listedCount"}
      [] op = "LinkedInConnector.calculateMetrics" -> {"endorsements", "connections"}
      [] OTHER -> {"totalReactions", "totalComments", "followers"}

Increments == {1, 50, 3000}

\* C21: increasing one numeric input of a calculator while every other
\* input stays as it is never decreases the calculator's overallScore
C21_Monotonic ==
    Calculated =>
        \A in \in lastResult.env, f \in NumericInputs(lastResult.op), d \in Increments :
            CalculateMetrics(lastResult.op, [in EXCEPT ![f] = @ + d]).overallScore
                >= lastResult.value.overallScore

\* the calculateMetrics named op, applied to in at time now
CalculateMetricsAt(op, in, now) ==
    CASE op = "GitHubConnector.calculateMetrics" -> GitHubCalculateMetricsAt(in, now)
      [] op = "LinkedInConnector.calculateMetrics" -> LinkedInCalculateMetricsAt(in, now)
      [] OTHER -> CalculateMetrics(op, in)

\* C22: a calculator called with the same input at any other time returns
\* the same sub-scores, overall score and recommendations
C22_Deterministic ==
    Calculated =>
        \A in \in lastResult.env, now \in Times :
            CalculateMetricsAt(lastResult.op, in, now) = lastResult.value

\* the inputs SpecCalc hands to the calculateMetrics named op
InputsOf(op) ==
    CASE op = "GitHubConnector.calculateMetrics" -> GitHubInputs
      [] op = "TwitterConnector.calculateMetrics" -> TwitterInputs
      [] op = "LinkedInConnector.calculateMetrics" -> LinkedInInputs
      [] OTHER -> BlogInputs

\* no repository and no contribution, no original tweet, no experience,
\* education, skill or certification, no post
EmptyActivity(op, in) ==
    CASE op = "GitHubConnector.calculateMetrics" ->
           /\ in.ownRepos = 0
           /\ in.totalCommits = 0 /\ in.totalPRs = 0
           /\ in.totalReviews = 0 /\ in.totalIssues = 0
      [] op = "TwitterConnector.calculateMetrics" -> in.originalTweets = 0
      [] op = "LinkedInConnector.calculateMetrics" ->
           /\ in.months = <<>> /\ in.education = 0
           /\ in.skills = 0 /\ in.certifications = 0
      [] OTHER -> in.posts = 0

\* the attributes of the profile
StaticAttributes(op, in) ==
    CASE op = "GitHubConnector.calculateMetrics" -> <<in.followers, in.bio>>
      [] op = "TwitterConnector.calculateMetrics" ->
           <<in.followers, in.listedCount, in.verified, in.bio>>
      [] op = "LinkedInConnector.calculateMetrics" -> <<in.connections, in.headline, in.bio>>
      [] OTHER -> <<in.followers>>

StartsRegistered(r) ==
    /\ runs[r].pc \in {"idle", "returned"}
    /\ runs'[r] # runs[r]
    /\ Registered(runs'[r].email)

\* C24: a registration with an email that a user of either type is registered
\* with fails with EmailExists and creates no user, profile or connection;
\* no two users ever have the same email
C24_DuplicateEmailRejected ==
    /\ [](\A x, y \in user : x.email = y.email => x = y)
    /\ [][\A r \in RunIds :
            StartsRegistered(r) =>
                /\ runs'[r].pc = "returned"
                /\ lastResult' = Thrown(runs'[r].op, "", EmailExists)
                /\ user' = user
                /\ candidateProfile' = candidateProfile
                /\ recruiterProfile' = recruiterProfile
                /\ platformConnection' = platformConnection]_vars

\* a recruiter's registration was rejected for the email of a candidate, while
\* the other email got its user from an overlapping pair of registrations
C24_Witness ==
    /\ lastResult = Thrown("registerRecruiter", "", EmailExists)
    /\ \E r \in RunIds :
          /\ runs[r].pc = "returned"
          /\ runs[r].op = "registerRecruiter"
          /\ \E x \in user : x.email = runs[r].email /\ x.userType = CANDIDATE
    /\ Cardinality(user) = 2

\* C25: a new profile is private, each toggle flips isPublic and returns the
\* value getCandidateProfile returns next: after k toggles the profile is
\* public iff k is odd
C25_ToggleParity ==
    /\ \A u \in Users :
          HasProfile(u) =>
              getCandidateProfile(u).isPublic = (calls[u].toggles % 2 = 1)
    /\ (lastResult.op = "toggleProfileVisibility" /\ lastResult.error = "") =>
          lastResult.value.isPublic = getCandidateProfile(lastResult.userId).isPublic

C25_Witness ==
    /\ lastResult.op = "toggleProfileVisibility"
    /\ lastResult.error = ""
    /\ calls[lastResult.userId].toggles = 3
    /\ getCandidateProfile(lastResult.userId).isPublic

\* C26: a cached read never returns a data set whose parts were written by
\* different refreshes, whatever refresh is in flight
C26_ReadIsOfOneRefresh ==
    (lastResult.op = "getCachedData" /\ lastResult.value # NoData) =>
        \A s, t \in DOMAIN lastResult.value.parts :
            lastResult.value.parts[s] = lastResult.value.parts[t]

\* no refresh of the platform is between its first findFirst and its return
NoStoreInFlight(cid, p) ==
    \A r \in RunIds :
        runs[r].pc \in {"findFirst", "write", "updateMany"} =>
            ~(runs[r].candidateId = cid /\ runs[r].platform = p)

\* C27: there is at most one row for each candidate, platform and dataType,
\* and once a refresh has returned with no other in flight a cached read
\* returns the data set that refresh stored
C27_OneRowPerKey ==
    /\ \A c \in DOMAIN platformDataRows, p \in Platforms, t \in DataTypes :
          Len(platformDataRows[c][p][t]) <= 1
    /\ \A c \in DOMAIN platformDataRows, p \in Platforms :
          (/\ lastResult.op = "fetchAndStoreData"
           /\ lastResult.userId = c
           /\ lastResult.env = {p}
           /\ NoStoreInFlight(c, p)) =>
              CachedReads(c, p) =
                  {[parts |-> [t \in RequiredTypes(p) |-> lastResult.value]]}

\* C28: while no fetch has succeeded for a connection since its username was
\* set, the profile aggregateProfile returns holds no data for that platform
\* and calculateAndStoreScore counts it as missing
C28_NoMetricsOfPreviousUsername ==
    \A p \in Platforms :
        (/\ lastResult.op \in {"aggregateProfile", "calculateAndStoreScore"}
         /\ lastResult.error = ""
         /\ p \in Fetchable(candidateProfile[lastResult.userId])
         /\ connectionSync[candidateProfile[lastResult.userId]][p].lastSynced = Null) =>
            IF lastResult.op = "aggregateProfile"
            THEN lastResult.value.platforms[p] = NoData
            ELSE ~Contains(lastResult.value.current.breakdown.platformsConnected, PlatformKey(p))

\* what a periodic update did: the refresh it ran stored a score
Refreshed == lastResult.op = "schedulePeriodicUpdate" /\ lastResult.value # NoValue

\* a connection of the candidate is stale at time now
Stale(cid, now) ==
    \E p \in Platforms :
        /\ platformConnection[cid][p] # NoConnection
        /\ \/ connectionSync[cid][p].lastSynced = Null
           \/ connectionSync[cid][p].lastSynced < DayOf(now) - 1

\* C29: the periodic update refreshes only a candidate with a stale
\* connection; after a refresh whose every fetch succeeded no connection is
\* stale, so that the next periodic update would not refresh
C29_PeriodicUpdate ==
    /\ [][Refreshed' /\ lastResult' # lastResult =>
            /\ HasProfile(lastResult'.userId)
            /\ Stale(candidateProfile[lastResult'.userId], clock)]_vars
    /\ [](Refreshed /\ lastResult.env = Fetchable(candidateProfile[lastResult.userId]) =>
            ~Stale(candidateProfile[lastResult.userId], clock))

\* the notifications of u that are not read
Unread(u) == {i \in 1..Len(notificationStore[u]) : notificationStore[u][i].read = FALSE}

\* C30: a list never holds more than StoreLimit notifications, the newer
\* ones first; getUnreadCount is the number of its unread notifications, 0
\* right after markAllAsRead; a notification created for a full list takes
\* the place of the oldest
C30_NotificationList ==
    /\ [](\A u \in Users :
            /\ Len(notificationStore[u]) <= StoreLimit
            /\ \A i, j \in 1..Len(notificationStore[u]) :
                  i < j => notificationStore[u][i].createdAt >= notificationStore[u][j].createdAt
            /\ getUnreadCount(u) = Cardinality(Unread(u))
            /\ (lastResult.op = "markAllAsRead" /\ lastResult.userId = u) =>
                  getUnreadCount(u) = 0)
    /\ [][\A u \in Users :
            (/\ lastResult'.op = "createNotification"
             /\ lastResult'.userId = u
             /\ clock' # clock
             /\ Len(notificationStore[u]) = StoreLimit) =>
                /\ Len(notificationStore'[u]) = StoreLimit
                /\ notificationStore'[u][1] = lastResult'.value
                /\ \A i \in 1..(StoreLimit - 1) :
                      notificationStore'[u][i + 1] = notificationStore[u][i]]_vars

\* a notification was created for a full list with read and unread
\* notifications: the oldest is gone
C30_Witness ==
    /\ lastResult.op = "createNotification"
    /\ lastResult.userId = "u1"
    /\ Len(notificationStore["u1"]) = StoreLimit
    /\ notificationStore["u1"][StoreLimit].createdAt = 0 - (StoreLimit - 1)
    /\ notificationStore["u1"][2].read
    /\ getUnreadCount("u1") = StoreLimit - 1

====
